---- MODULE Spec2Model ----
(***************************************************************************)
(* PatternDataModel (antenna_pattern_viewer/data_model.py): the registry   *)
(* of loaded pattern instances, the active instance, the comparison set,   *)
(* the session's view parameters and the processing pipeline that          *)
(* re-derives the current pattern from the original one.                   *)
(*                                                                         *)
(* A pattern (external FarFieldSpherical object) is the record             *)
(*   [src, ops, pol]: the load it came from, the transforms invoked on it  *)
(* since the load (method name and argument, in call order) and its        *)
(* polarization basis.  copy() is the value itself.                        *)
(***************************************************************************)
EXTENDS Integers, Sequences, FiniteSets, TLC

\* ---------------------------------------------------------------- bounds
MaxIds == 3
MaxFailures == 1
MaxTrace == 3
MaxJobs == 2
MaxPoints == 3
MaxModes == 2

\* ------------------------------------------------------------ None values
NoneId == 0
NoneStr == "None"
NoPattern == [src |-> NoneId, ops |-> <<>>, pol |-> NoneStr]
EmptyDict == [k \in {} |-> NoneStr]

\* ------------------------------------------------------ input value sets
CoordinateFormats == {"central", "sided"}
NormTypes == {"peak"}
ThetaOffsets == {"10.0"}
PhiOffsets == {"20.0"}
Translations == {"[0,0,0.1]"}
MaxExtents == {"0.5"}
Polarizations == {"theta_phi", "rhcp"}
LoadedPolarization == "theta_phi"
PlotTypes == {"1d_cut", "2d_polar"}
FrequencySelections == {<<>>, <<1>>}

\* pattern.frequencies and pattern.phi_angles of a loaded file
FrequencyArrays == {<<1, 2>>, <<1>>}
PhiArrays == {<<0, 90>>, <<90, 180>>}
LoadedFrequencies == <<1, 2>>
LoadedPhiAngles == <<0, 90>>

\* the spin boxes of the near-field group
Radii == {1, 2}
Extents == {1, 2}
ZDistances == {1}

\* the modes <<n, m>> of an expansion up to degree NMAX, and the values a
\* coefficient takes: 0, 1 and 1 - i
NMAX == 2
Modes == {mode \in (1..NMAX) \X ((0 - NMAX)..NMAX) :
             mode[2] <= mode[1] /\ 0 - mode[2] <= mode[1]}
Coefficients == {<<0, 0>>, <<1, 0>>, <<1, 0 - 1>>}

Slots == <<"coordinate_format", "amplitude_normalization",
           "boresight_normalization", "theta_origin_shift",
           "phi_origin_shift", "phase_center_translation",
           "mars_max_extent">>

Methods == {"transform_coordinates", "normalize_amplitude",
            "normalize_at_boresight", "shift_theta_origin",
            "shift_phi_origin", "translate", "apply_mars"}

\* A transform of the external library either returns or raises; NoFail
\* stands for "no transform raises during this call".
NoFail == "no_failure"

VARIABLES
    instances,                \* _instances: insertion-ordered id -> PatternInstance
    active_instance_id,       \* _active_instance_id
    comparison_instance_ids,  \* _comparison_instance_ids
    pattern,                  \* _pattern
    original_pattern,         \* _original_pattern
    file_path,                \* _file_path
    processing_state,         \* _processing_state
    view_params,              \* _view_params
    emitted,                  \* signals emitted by the last call, in order
    run,                      \* the last apply_processing run of the last call
    lastCall,                 \* the last call: operation, argument, outcome
    nextId,                   \* next instance id to hand out (uuid4 is fresh)
    failures,                 \* calls of the external library that raised so far
    trace,                    \* the set_<option> calls since the pattern was loaded
    swe_jobs,                 \* the SWEWorker threads ControlPanelWidget started
    analysis_tab,             \* AnalysisTab.swe_calculated and .nearfield_data
    gui_thread,               \* where the thread that runs the slots is
    nf_params,                \* the values of the near-field spin boxes
    near_field_data,          \* the near-field dictionary built last
    evaluation,               \* the last call of swe.near_field: arguments, result
    swe_obj,                  \* the SWE object a calculation delivered
    power_figure,             \* what display_swe_results computed and drew last
    comparison_status         \* what LeftPanelWidget showed of the comparison set

vars == <<instances, active_instance_id, comparison_instance_ids, pattern,
          original_pattern, file_path, processing_state, view_params,
          emitted, run, lastCall, nextId, failures, trace,
          swe_jobs, analysis_tab, gui_thread,
          nf_params, near_field_data, evaluation, swe_obj, power_figure,
          comparison_status>>

\* the state of the near-field arrays and of the power plot
plot_vars == <<nf_params, near_field_data, evaluation, swe_obj, power_figure>>

\* ------------------------------------------------------------- dict helpers
\* dict.update(other): keys of other overwrite, other keys stay.
DictUpdate(d, other) ==
    [k \in (DOMAIN d) \cup (DOMAIN other) |->
        IF k \in DOMAIN other THEN other[k] ELSE d[k]]

\* d[key] = value
DictSet(d, key, value) ==
    [k \in (DOMAIN d) \cup {key} |-> IF k = key THEN value ELSE d[k]]

\* keys of _instances, and the PatternInstance stored under a key
Keys(insts) == {insts[i].instance_id : i \in 1..Len(insts)}
KeyList(insts) == [i \in 1..Len(insts) |-> insts[i].instance_id]
IndexOf(insts, id) == CHOOSE i \in 1..Len(insts) : insts[i].instance_id = id
Lookup(insts, id) == insts[IndexOf(insts, id)]

\* del d[id]
Delete(insts, id) ==
    LET F(x) == x.instance_id # id IN SelectSeq(insts, F)

\* d[id] = instance: a new key goes last, an existing key keeps its place
Store(insts, instance) ==
    IF instance.instance_id \in Keys(insts)
    THEN [insts EXCEPT ![IndexOf(insts, instance.instance_id)] = instance]
    ELSE Append(insts, instance)

\* --------------------------------------------------------- initial values
InitialProcessingState ==
    [phase_center_translation |-> NoneStr,
     mars_max_extent          |-> NoneStr,
     coordinate_format        |-> NoneStr,
     theta_origin_shift       |-> NoneStr,
     phi_origin_shift         |-> NoneStr,
     amplitude_normalization  |-> NoneStr,
     boresight_normalization  |-> FALSE]

InitialViewParams ==
    [selected_frequencies |-> <<>>,
     selected_phi         |-> <<>>,
     selected_theta       |-> <<>>,
     plot_type            |-> "1d_cut",
     component            |-> "e_co",
     value_type           |-> "gain",
     normalize            |-> FALSE,
     unwrap_phase         |-> TRUE,
     statistics_enabled   |-> FALSE,
     statistic_type       |-> "mean"]

NoRun == [ran |-> FALSE, calls |-> <<>>, raised |-> FALSE]

\* display_name as __post_init__ sets it, and the names a user gives
SourceFileName == "source_file.name"
NewNames == {"renamed"}

\* PatternInstance as built by FileManagerWidget: fresh id, loaded pattern,
\* source file, no saved view parameters yet.
NewInstance(id) ==
    [instance_id |-> id,
     pattern     |-> [src |-> id, ops |-> <<>>, pol |-> LoadedPolarization,
                      frequencies |-> LoadedFrequencies,
                      phi_angles |-> LoadedPhiAngles],
     source_file |-> id,
     display_name |-> SourceFileName,
     view_params |-> EmptyDict]

\* The session as one record, so that a method that calls another composes.
Session ==
    [instances               |-> instances,
     active_instance_id      |-> active_instance_id,
     comparison_instance_ids |-> comparison_instance_ids,
     pattern                 |-> pattern,
     original_pattern        |-> original_pattern,
     file_path               |-> file_path,
     processing_state        |-> processing_state,
     view_params             |-> view_params,
     emitted                 |-> <<>>,
     run                     |-> NoRun,
     raised                  |-> FALSE]

\* What a slot connected to a signal of the model reads from the model
\* while it runs: connections are direct, a slot runs inside emit().  Of the
\* active instance's stored pattern, the file it was read from.
Seen(S) ==
    [keys               |-> KeyList(S.instances),
     active_instance_id |-> S.active_instance_id,
     pattern            |-> S.pattern,
     active_src         |-> IF S.active_instance_id \in Keys(S.instances)
                            THEN Lookup(S.instances,
                                        S.active_instance_id).pattern.src
                            ELSE NoPattern.src]

Emit(S, signal, arg) ==
    [S EXCEPT !.emitted =
        Append(@, [signal |-> signal, arg |-> arg, seen |-> Seen(S)])]

\* ------------------------------------------------------------ set_pattern
set_pattern(S, p, fp) ==
    LET S1 == [S EXCEPT !.original_pattern = p,
                        !.pattern = p,
                        !.file_path = fp,
                        !.processing_state = InitialProcessingState]
        S2 == IF p # NoPattern
              THEN [S1 EXCEPT !.view_params =
                       DictSet(DictSet(DictSet(@,
                           "selected_frequencies", <<>>),
                           "selected_phi", <<>>),
                           "selected_theta", <<>>)]
              ELSE S1
    IN Emit(S2, "pattern_loaded", p)

\* ---------------------------------------------------- set_active_instance
\* "Save current view params to old active instance"
SaveViewParams(S) ==
    IF S.active_instance_id # NoneId
       /\ S.active_instance_id \in Keys(S.instances)
    THEN [S EXCEPT !.instances[IndexOf(S.instances, S.active_instance_id)]
                        .view_params = S.view_params]
    ELSE S

\* "Restore view params from instance"
RestoreViewParams(S, instance) ==
    IF DOMAIN instance.view_params # {}
    THEN Emit([S EXCEPT !.view_params = DictUpdate(@, instance.view_params)],
              "view_parameters_changed",
              DictUpdate(S.view_params, instance.view_params))
    ELSE S

FilePathOf(instance) ==
    IF instance.source_file # NoneId THEN instance.source_file ELSE NoneId

\* self._instances[instance_id] raises KeyError for an unregistered id, after
\* the view parameters were saved and _active_instance_id was assigned.
set_active_instance(S, instance_id) ==
    LET S1 == SaveViewParams(S)
        S2 == [S1 EXCEPT !.active_instance_id = instance_id]
    IN IF instance_id \notin Keys(S2.instances)
       THEN [S2 EXCEPT !.raised = TRUE]
       ELSE LET instance == Lookup(S2.instances, instance_id)
                S3 == RestoreViewParams(S2, instance)
                S4 == set_pattern(S3, instance.pattern, FilePathOf(instance))
                S5 == Emit(S4, "active_instance_changed", instance_id)
            IN Emit(S5, "pattern_loaded", instance.pattern)

\* ----------------------------------------------------------- add_instance
\* add_instance that activates whatever it adds
add_instance_AlwaysActivates(S, instance) ==
    LET S1 == [S EXCEPT !.instances = Store(@, instance)]
        S2 == Emit(S1, "instances_changed", NoneId)
    IN set_active_instance(S2, instance.instance_id)

add_instance(S, instance) ==
    LET S1 == [S EXCEPT !.instances = Store(@, instance)]
        S2 == Emit(S1, "instances_changed", NoneId)
    IN IF Len(S2.instances) = 1
       THEN set_active_instance(S2, instance.instance_id)
       ELSE S2

\* -------------------------------------------------------- remove_instance
\* the last remaining key instead of the first
NewActive_Last(remaining, instance_id) ==
    IF Len(remaining) > 1
    THEN LET F(k) == k # instance_id
             others == SelectSeq(remaining, F)
         IN others[Len(others)]
    ELSE remaining[1]

\* new_active: the first remaining key other than instance_id when there is
\* more than one key, else remaining[0]
NewActive(remaining, instance_id) ==
    IF Len(remaining) > 1
    THEN LET F(k) == k # instance_id IN SelectSeq(remaining, F)[1]
    ELSE remaining[1]

\* remove_instance without the discard
DiscardOnRemove_Missing(S, instance_id) == S

\* a discard that is announced
DiscardOnRemove_Notifies(S, instance_id) ==
    LET S1 == [S EXCEPT !.comparison_instance_ids = @ \ {instance_id}]
    IN Emit(S1, "comparison_set_changed", S1.comparison_instance_ids)

\* "Remove from comparison set if present"
DiscardOnRemove(S, instance_id) ==
    [S EXCEPT !.comparison_instance_ids = @ \ {instance_id}]

remove_instance(S, instance_id) ==
    IF instance_id \in Keys(S.instances)
    THEN LET S1 == DiscardOnRemove(S, instance_id)
             S2 == IF S1.active_instance_id = instance_id
                   THEN LET S1a == [S1 EXCEPT !.active_instance_id = NoneId]
                            remaining == KeyList(S1a.instances)
                        IN IF remaining # <<>>
                           THEN set_active_instance(
                                    S1a, NewActive(remaining, instance_id))
                           ELSE Emit(Emit(S1a, "active_instance_changed", NoneId),
                                     "pattern_loaded", NoPattern)
                   ELSE S1
             S3 == [S2 EXCEPT !.instances = Delete(@, instance_id)]
         IN Emit(S3, "instances_changed", NoneId)
    ELSE S

\* -------------------------------------------------------- rename_instance
rename_instance(S, instance_id, new_name) ==
    IF instance_id \in Keys(S.instances)
    THEN LET S1 == [S EXCEPT !.instances[IndexOf(S.instances, instance_id)]
                                  .display_name = new_name]
         IN Emit(S1, "instances_changed", NoneId)
    ELSE S

\* ------------------------------------------------------- comparison set
\* add_to_comparison without the membership test
add_to_comparison_Unguarded(S, instance_id) ==
    LET S1 == [S EXCEPT !.comparison_instance_ids = @ \cup {instance_id}]
    IN Emit(S1, "comparison_set_changed", S1.comparison_instance_ids)

add_to_comparison(S, instance_id) ==
    IF instance_id \in Keys(S.instances)
    THEN LET S1 == [S EXCEPT !.comparison_instance_ids = @ \cup {instance_id}]
         IN Emit(S1, "comparison_set_changed", S1.comparison_instance_ids)
    ELSE S

remove_from_comparison(S, instance_id) ==
    LET S1 == [S EXCEPT !.comparison_instance_ids = @ \ {instance_id}]
    IN Emit(S1, "comparison_set_changed", S1.comparison_instance_ids)

\* LeftPanelWidget.on_comparison_set_changed: the status line is drawn from
\* the list the signal carries.
NoStatus == [num_patterns |-> 0, comparison_ids |-> {}]

on_comparison_set_changed(comparison_ids) ==
    [num_patterns |-> Cardinality(comparison_ids),
     comparison_ids |-> comparison_ids]

\* The status line after the signals of one call reached the slot.
Notified(status, signals) ==
    LET changes == {i \in 1..Len(signals) :
                       signals[i].signal = "comparison_set_changed"}
    IN IF changes = {}
       THEN status
       ELSE on_comparison_set_changed(
                signals[CHOOSE i \in changes : \A j \in changes : j <= i].arg)

\* ------------------------------------------- get_comparison_compatibility
NoInstance == [instance_id |-> NoneId]

\* "if self._active_instance_id: return self._instances.get(...)"
get_active_instance(S) ==
    IF S.active_instance_id # NoneId
       /\ S.active_instance_id \in Keys(S.instances)
    THEN Lookup(S.instances, S.active_instance_id)
    ELSE NoInstance

\* sorted(a set)
RECURSIVE Sorted(_)
Sorted(set) ==
    IF set = {}
    THEN <<>>
    ELSE LET least == CHOOSE x \in set : \A y \in set : x <= y
         IN <<least>> \o Sorted(set \ {least})

\* The instances of the comparison set that are registered; a Python set
\* has no order of its own, they are taken by ascending id.
get_comparison_instances(S) ==
    LET ids == Sorted(S.comparison_instance_ids \cap Keys(S.instances))
    IN [i \in 1..Len(ids) |-> Lookup(S.instances, ids[i])]

\* set(array.tolist())
SetOf(array) == {array[i] : i \in 1..Len(array)}

\* the union in place of the intersection
RECURSIVE Intersection_AsUnion(_)
Intersection_AsUnion(sets) ==
    IF Len(sets) = 1
    THEN sets[1]
    ELSE sets[1] \cup Intersection_AsUnion(Tail(sets))

\* set.intersection(*sets), for a non-empty list of sets
RECURSIVE Intersection(_)
Intersection(sets) ==
    IF Len(sets) = 1
    THEN sets[1]
    ELSE sets[1] \cap Intersection(Tail(sets))

get_comparison_compatibility(S) ==
    LET active == get_active_instance(S)
        comparison == get_comparison_instances(S)
    IN IF active.instance_id = NoneId \/ comparison = <<>>
       THEN [compatible         |-> FALSE,
             common_frequencies |-> <<>>,
             common_phi         |-> <<>>,
             num_comparison     |-> IF comparison # <<>>
                                    THEN Len(comparison) ELSE 0]
       ELSE LET all_patterns ==
                    <<active.pattern>>
                    \o [i \in 1..Len(comparison) |-> comparison[i].pattern]
                freq_sets == [i \in 1..Len(all_patterns) |->
                                 SetOf(all_patterns[i].frequencies)]
                common_freqs == Sorted(Intersection(freq_sets))
                phi_sets == [i \in 1..Len(all_patterns) |->
                                SetOf(all_patterns[i].phi_angles)]
                common_phi == Sorted(Intersection(phi_sets))
                compatible ==
                    /\ Len(common_freqs) = Len(all_patterns[1].frequencies)
                    /\ Len(common_phi) = Len(all_patterns[1].phi_angles)
                    /\ \A i \in 1..Len(all_patterns) :
                           Len(common_freqs) = Len(all_patterns[i].frequencies)
                    /\ \A i \in 1..Len(all_patterns) :
                           Len(common_phi) = Len(all_patterns[i].phi_angles)
            IN [compatible         |-> compatible,
                common_frequencies |-> common_freqs,
                common_phi         |-> common_phi,
                num_comparison     |-> Len(comparison)]

\* ------------------------------------------------------- view parameters
set_view_param(S, key, value) ==
    LET S1 == [S EXCEPT !.view_params = DictSet(@, key, value)]
    IN Emit(S1, "view_parameters_changed", S1.view_params)

\* ------------------------------------------------------- apply_processing
\* processing stacked onto the current pattern
StartOfReplay_Current(S) == S.pattern

\* "Start with a copy of the original"
StartOfReplay(S) == S.original_pattern

\* One guarded call processed.<method>(arg) on the working copy r.pat.  The
\* transform named by fail raises when it is invoked; what follows a raise
\* in the method body does not run.
Invoke(r, enabled, method, arg, fail) ==
    IF r.raised \/ ~enabled
    THEN r
    ELSE IF fail = method
         THEN [r EXCEPT !.calls = Append(@, method), !.raised = TRUE]
         ELSE [r EXCEPT !.calls = Append(@, method),
                        !.pat.ops = Append(@, <<method, arg>>)]

\* the phase center translation applied before the origin shifts
Replay_TranslateFirst(start, st, fail) ==
    LET r0 == [pat |-> start, calls |-> <<>>, raised |-> FALSE]
        r1 == Invoke(r0, st.coordinate_format # NoneStr,
                     "transform_coordinates", st.coordinate_format, fail)
        r2 == Invoke(r1, st.amplitude_normalization # NoneStr,
                     "normalize_amplitude", st.amplitude_normalization, fail)
        r3 == Invoke(r2, st.boresight_normalization,
                     "normalize_at_boresight", NoneStr, fail)
        r4 == Invoke(r3, st.phase_center_translation # NoneStr,
                     "translate", st.phase_center_translation, fail)
        r5 == Invoke(r4, st.theta_origin_shift # NoneStr,
                     "shift_theta_origin", st.theta_origin_shift, fail)
        r6 == Invoke(r5, st.phi_origin_shift # NoneStr,
                     "shift_phi_origin", st.phi_origin_shift, fail)
    IN Invoke(r6, st.mars_max_extent # NoneStr,
              "apply_mars", st.mars_max_extent, fail)

\* The seven guarded calls, in the order of the method body.
Replay(start, st, fail) ==
    LET r0 == [pat |-> start, calls |-> <<>>, raised |-> FALSE]
        r1 == Invoke(r0, st.coordinate_format # NoneStr,
                     "transform_coordinates", st.coordinate_format, fail)
        r2 == Invoke(r1, st.amplitude_normalization # NoneStr,
                     "normalize_amplitude", st.amplitude_normalization, fail)
        r3 == Invoke(r2, st.boresight_normalization,
                     "normalize_at_boresight", NoneStr, fail)
        r4 == Invoke(r3, st.theta_origin_shift # NoneStr,
                     "shift_theta_origin", st.theta_origin_shift, fail)
        r5 == Invoke(r4, st.phi_origin_shift # NoneStr,
                     "shift_phi_origin", st.phi_origin_shift, fail)
        r6 == Invoke(r5, st.phase_center_translation # NoneStr,
                     "translate", st.phase_center_translation, fail)
    IN Invoke(r6, st.mars_max_extent # NoneStr,
              "apply_mars", st.mars_max_extent, fail)

\* a replay that is skipped when no slot is set
apply_processing_SkipsWhenUnset(S, fail) ==
    IF S.original_pattern = NoPattern
       \/ S.processing_state = InitialProcessingState
    THEN S
    ELSE LET r == Replay(StartOfReplay(S), S.processing_state, fail)
             ran == [ran |-> TRUE, calls |-> r.calls, raised |-> r.raised]
         IN IF r.raised
            THEN [S EXCEPT !.run = ran, !.raised = TRUE]
            ELSE Emit([S EXCEPT !.run = ran, !.pattern = r.pat],
                      "pattern_modified", r.pat)

\* a replay whose working copy becomes current when a transform raises
apply_processing_CommitsPartial(S, fail) ==
    IF S.original_pattern = NoPattern
    THEN S
    ELSE LET r == Replay(StartOfReplay(S), S.processing_state, fail)
             ran == [ran |-> TRUE, calls |-> r.calls, raised |-> r.raised]
         IN IF r.raised
            THEN [S EXCEPT !.run = ran, !.raised = TRUE, !.pattern = r.pat]
            ELSE Emit([S EXCEPT !.run = ran, !.pattern = r.pat],
                      "pattern_modified", r.pat)

\* a replay that works on the original itself, and so on the stored
\* pattern of the active instance, which is the same object
apply_processing_InPlace(S, fail) ==
    IF S.original_pattern = NoPattern
    THEN S
    ELSE LET r == Replay(StartOfReplay(S), S.processing_state, fail)
             ran == [ran |-> TRUE, calls |-> r.calls, raised |-> r.raised]
             S1 == [S EXCEPT !.run = ran,
                             !.original_pattern = r.pat,
                             !.instances =
                                 [i \in DOMAIN @ |->
                                     IF @[i].instance_id = S.active_instance_id
                                     THEN [@[i] EXCEPT !.pattern = r.pat]
                                     ELSE @[i]]]
         IN IF r.raised
            THEN [S1 EXCEPT !.raised = TRUE]
            ELSE Emit([S1 EXCEPT !.pattern = r.pat], "pattern_modified", r.pat)

apply_processing(S, fail) ==
    IF S.original_pattern = NoPattern
    THEN S
    ELSE LET r == Replay(StartOfReplay(S), S.processing_state, fail)
             ran == [ran |-> TRUE, calls |-> r.calls, raised |-> r.raised]
         IN IF r.raised
            THEN [S EXCEPT !.run = ran, !.raised = TRUE]
            ELSE Emit([S EXCEPT !.run = ran, !.pattern = r.pat],
                      "pattern_modified", r.pat)

\* a disable that clears every slot
StoreSlot_ClearsAllOnDisable(S, slot, value) ==
    IF value = InitialProcessingState[slot]
    THEN [S EXCEPT !.processing_state = InitialProcessingState]
    ELSE [S EXCEPT !.processing_state[slot] = value]

\* self._processing_state[<slot>] = <argument>
StoreSlot(S, slot, value) == [S EXCEPT !.processing_state[slot] = value]

\* processing_applied emitted ahead of the replay
SetOption_AppliedFirst(S, slot, value, name, fail) ==
    LET S1 == StoreSlot(S, slot, value)
        S2 == Emit(S1, "processing_applied", name)
    IN apply_processing(S2, fail)

\* a set_<option> that takes the slot back when the replay raises
SetOption_RollsBack(S, slot, value, name, fail) ==
    LET S1 == StoreSlot(S, slot, value)
        S2 == apply_processing(S1, fail)
    IN IF S2.raised
       THEN [S2 EXCEPT !.processing_state = S.processing_state]
       ELSE Emit(S2, "processing_applied", name)

\* set_<option>: store the slot, replay, then emit processing_applied (not
\* reached when the replay raises).
SetOption(S, slot, value, name, fail) ==
    LET S1 == StoreSlot(S, slot, value)
        S2 == apply_processing(S1, fail)
    IN IF S2.raised THEN S2 ELSE Emit(S2, "processing_applied", name)

set_phase_center_translation(S, translation, fail) ==
    SetOption(S, "phase_center_translation", translation,
              "phase_center_translation", fail)

set_mars(S, max_extent, fail) ==
    SetOption(S, "mars_max_extent", max_extent, "mars", fail)

set_coordinate_format(S, format, fail) ==
    SetOption(S, "coordinate_format", format, "coordinate_format", fail)

set_theta_origin_shift(S, theta_offset, fail) ==
    SetOption(S, "theta_origin_shift", theta_offset, "theta_origin_shift", fail)

set_phi_origin_shift(S, phi_offset, fail) ==
    SetOption(S, "phi_origin_shift", phi_offset, "phi_origin_shift", fail)

set_amplitude_normalization(S, norm_type, fail) ==
    SetOption(S, "amplitude_normalization", norm_type,
              "amplitude_normalization", fail)

set_boresight_normalization(S, enabled, fail) ==
    SetOption(S, "boresight_normalization", enabled,
              "boresight_normalization", fail)

\* ------------------------------------------------ on_polarization_changed
\* a polarization change written to the original as well
on_polarization_changed_AlsoOriginal(S, new_polarization) ==
    IF S.pattern = NoPattern \/ new_polarization = S.pattern.pol
    THEN S
    ELSE LET p  == [S.pattern EXCEPT !.pol = new_polarization]
             S1 == [S EXCEPT !.pattern = p,
                             !.original_pattern.pol = new_polarization]
             S2 == Emit(S1, "pattern_modified", p)
             S3 == Emit(S2, "processing_applied", "polarization_conversion")
         IN Emit(S3, "view_parameters_changed", S3.view_params)

\* ControlPanelWidget / LeftPanelWidget: a copy of the current pattern with
\* the new basis replaces _pattern; nothing happens without a pattern or
\* when the basis is the current one.
on_polarization_changed(S, new_polarization) ==
    IF S.pattern = NoPattern \/ new_polarization = S.pattern.pol
    THEN S
    ELSE LET p  == [S.pattern EXCEPT !.pol = new_polarization]
             S1 == [S EXCEPT !.pattern = p]
             S2 == Emit(S1, "pattern_modified", p)
             S3 == Emit(S2, "processing_applied", "polarization_conversion")
         IN Emit(S3, "view_parameters_changed", S3.view_params)

\* ===================================================== SWE and near field
\* An SWEWorker: the pattern it was given, how far it is ("running" until
\* run() returns, "finished" or "failed" while its signal is queued, "done"
\* once the slot has handled it) and the pattern that on_swe_finished put
\* its result on.  self.swe_worker is the last one started.
NewWorker(p) ==
    [pattern |-> p, state |-> "running", attached_to |-> NoPattern,
     outcomes |-> <<>>]

\* hasattr(self, 'swe_worker') and self.swe_worker.isRunning()
isRunning(jobs) == jobs # <<>> /\ jobs[Len(jobs)].state = "running"

\* hasattr(pattern, 'swe') and pattern.swe
HasSWE(jobs, p) ==
    \E i \in 1..Len(jobs) :
        /\ jobs[i].state = "done"
        /\ jobs[i].attached_to # NoPattern
        /\ jobs[i].attached_to = p

\* a request that starts a worker whatever the last one is doing
on_calculate_swe_NoRunningCheck(jobs, p) ==
    IF p = NoPattern
    THEN jobs
    ELSE Append(jobs, NewWorker(p))

\* ControlPanelWidget.on_calculate_swe
on_calculate_swe(jobs, p) ==
    IF p = NoPattern
    THEN jobs
    ELSE IF isRunning(jobs)
         THEN jobs
         ELSE Append(jobs, NewWorker(p))

\* SWEWorker.run: calculate_spherical_modes returns or raises
SWEWorker_run(job, fail) ==
    IF fail
    THEN [job EXCEPT !.state = "failed", !.outcomes = Append(@, "error")]
    ELSE [job EXCEPT !.state = "finished", !.outcomes = Append(@, "finished")]

\* Queued signals reach their slots in the order they were emitted.
Queued(jobs) == {i \in 1..Len(jobs) : jobs[i].state \in {"finished", "failed"}}
NextQueued(jobs) == CHOOSE i \in Queued(jobs) : \A j \in Queued(jobs) : i <= j

NoNearfield == [surface |-> NoneStr, keys |-> {}]

\* AnalysisTab.calculate_swe_btn as built, and as a request leaves it
ButtonReady == [enabled |-> TRUE, text |-> "Calculate SWE Coefficients"]
ButtonCalculating == [enabled |-> FALSE, text |-> "Calculating..."]

InitialAnalysisTab ==
    [swe_calculated |-> FALSE, nearfield_data |-> NoNearfield,
     calculate_swe_btn |-> ButtonReady]

\* ControlPanelWidget.on_calculate_swe, what it does to the button: nothing
\* when it returns early
on_calculate_swe_btn(tab, jobs, p) ==
    IF p = NoPattern \/ isRunning(jobs)
    THEN tab
    ELSE [tab EXCEPT !.calculate_swe_btn = ButtonCalculating]

\* AnalysisTab.update_pattern, called by ControlPanelWidget.on_pattern_loaded
update_pattern(tab, jobs, p) ==
    [tab EXCEPT !.nearfield_data = NoNearfield,
                !.swe_calculated = HasSWE(jobs, p),
                !.calculate_swe_btn.enabled = TRUE]

\* ControlPanelWidget.on_swe_finished: the result goes onto the pattern
\* that is current when the slot runs; display_swe_results sets
\* swe_calculated.  Without a current pattern the attribute access raises.
on_swe_finished(A, i, p) ==
    IF p = NoPattern
    THEN [A EXCEPT !.jobs[i].state = "done", !.raised = TRUE]
    ELSE [A EXCEPT !.jobs[i].state = "done",
                   !.jobs[i].attached_to = p,
                   !.tab.swe_calculated = TRUE,
                   !.tab.calculate_swe_btn = ButtonReady]

\* an error slot that leaves the button as it is
on_swe_error_KeepsButton(A, i) == [A EXCEPT !.jobs[i].state = "done"]

\* ControlPanelWidget.on_swe_error
on_swe_error(A, i) ==
    [A EXCEPT !.jobs[i].state = "done",
              !.tab.calculate_swe_btn = ButtonReady]

\* The keys of nf_data, and the steps of on_calculate_nearfield that may
\* raise from the evaluator call on.
FieldComponents == <<"E_r", "E_theta", "E_phi", "H_r", "H_theta", "H_phi">>
SurfaceTypes == {"spherical", "planar"}

GridKeys(surface) ==
    IF surface = "spherical"
    THEN {"theta", "phi", "radius", "is_spherical"}
    ELSE {"x", "y", "x_extent", "y_extent", "z_distance", "is_spherical"}

NearfieldSteps == <<"near_field">> \o FieldComponents

StepsBefore(step) ==
    {NearfieldSteps[i] : i \in 1..(CHOOSE k \in 1..Len(NearfieldSteps) :
                                       NearfieldSteps[k] = step) - 1}

\* the components reshaped so far are stored when a later step raises
nearfield_evaluated_StoresPartial(A, surface, fail) ==
    IF fail # NoFail
    THEN [A EXCEPT !.tab.nearfield_data =
                       [surface |-> surface,
                        keys |-> StepsBefore(fail) \ {"near_field"}]]
    ELSE LET nf_data == [surface |-> surface,
                         keys |-> {FieldComponents[i] : i \in 1..6}
                                  \cup GridKeys(surface)]
         IN [A EXCEPT !.tab.nearfield_data = nf_data,
                      !.emitted = <<[signal |-> "nearfield_calculated",
                                     arg |-> nf_data]>>]

\* on_calculate_nearfield from the evaluator call on: swe.near_field, the
\* six reshapes of the dict literal, the store, the display and the signal;
\* an exception is caught and only shown.
nearfield_evaluated(A, surface, fail) ==
    IF fail # NoFail
    THEN A
    ELSE LET nf_data == [surface |-> surface,
                         keys |-> {FieldComponents[i] : i \in 1..6}
                                  \cup GridKeys(surface)]
         IN [A EXCEPT !.tab.nearfield_data = nf_data,
                      !.emitted = <<[signal |-> "nearfield_calculated",
                                     arg |-> nf_data]>>]

\* ================================================== near-field grid arrays
\* A 1-D array is a sequence, a 2-D array a sequence of rows; indices start
\* at 1 where numpy's start at 0.  A sample of np.linspace is kept exact, as
\* the fraction num/den.
linspace(start, stop, num) ==
    [i \in 1..num |->
        IF num = 1
        THEN [num |-> start, den |-> 1]
        ELSE [num |-> start * (num - 1) + (stop - start) * (i - 1),
              den |-> num - 1]]

\* np.radians, elementwise
radians(array) == [i \in 1..Len(array) |-> [radians |-> array[i]]]

\* np.meshgrid(a, b, indexing='ij'): the first axis follows a
meshgrid(a, b) ==
    <<[i \in 1..Len(a) |-> [j \in 1..Len(b) |-> a[i]]],
      [i \in 1..Len(a) |-> [j \in 1..Len(b) |-> b[j]]]>>

\* array.shape of a 2-D array
shape(array) ==
    <<Len(array), IF Len(array) = 0 THEN 0 ELSE Len(array[1])>>

\* np.full_like(array, value)
full_like(array, value) ==
    [i \in 1..shape(array)[1] |-> [j \in 1..shape(array)[2] |-> value]]

\* array.ravel(): row-major, the last index runs fastest
ravel(array) ==
    [k \in 1..(shape(array)[1] * shape(array)[2]) |->
        array[((k - 1) \div shape(array)[2]) + 1]
             [((k - 1) % shape(array)[2]) + 1]]

\* a reshape that fills the first axis fastest (column-major)
reshape_ColumnMajor(flat, shp) ==
    [i \in 1..shp[1] |-> [j \in 1..shp[2] |-> flat[(j - 1) * shp[1] + i]]]

\* flat.reshape(shape): row-major
reshape(flat, shp) ==
    [i \in 1..shp[1] |-> [j \in 1..shp[2] |-> flat[(i - 1) * shp[2] + j]]]

\* swe.cartesian_to_spherical (external): one (r, theta, phi) per point
cartesian_to_spherical(x, y, z) ==
    [c \in {"r", "theta", "phi"} |->
        [k \in 1..Len(x) |-> [coordinate |-> c, of |-> <<x[k], y[k], z[k]>>]]]

\* swe.near_field (external): for each field component one value per point,
\* in the order of the points it was given
near_field(r, theta, phi) ==
    [c \in {"E_r", "E_theta", "E_phi", "H_r", "H_theta", "H_phi"} |->
        [k \in 1..Len(r) |->
            [component |-> c, at |-> <<r[k], theta[k], phi[k]>>]]]

\* swe.core.spherical_to_cartesian_field (external): pointwise
spherical_to_cartesian_field(F_r, F_theta, F_phi, theta, phi) ==
    [c \in {"x", "y", "z"} |->
        [k \in 1..Len(F_r) |->
            [component |-> c, of |-> <<F_r[k], F_theta[k], F_phi[k]>>,
             theta |-> theta[k], phi |-> phi[k]]]]

\* the values of the spin boxes of the near-field group
NoParams == [surface_type |-> NoneStr]
NoData == [is_spherical |-> NoneStr]
NoEvaluation == [args |-> <<>>]

\* on_calculate_nearfield, the spherical branch: the arguments given to the
\* evaluator and the dictionary built from what it returns
spherical_nearfield(params) ==
    LET theta_deg == linspace(0, 180, params.theta_points)
        phi_deg   == linspace(0, 360, params.phi_points)
        theta_rad == radians(theta_deg)
        phi_rad   == radians(phi_deg)
        THETA     == meshgrid(theta_rad, phi_rad)[1]
        PHI       == meshgrid(theta_rad, phi_rad)[2]
        R         == full_like(THETA, params.radius)
        args      == <<ravel(R), ravel(THETA), ravel(PHI)>>
        fields    == near_field(args[1], args[2], args[3])
        shp       == shape(THETA)
    IN [evaluation |-> [args |-> args, fields |-> fields],
        nf_data |->
           [E_r     |-> reshape(fields["E_r"], shp),
            E_theta |-> reshape(fields["E_theta"], shp),
            E_phi   |-> reshape(fields["E_phi"], shp),
            H_r     |-> reshape(fields["H_r"], shp),
            H_theta |-> reshape(fields["H_theta"], shp),
            H_phi   |-> reshape(fields["H_phi"], shp),
            theta   |-> theta_deg,
            phi     |-> phi_deg,
            radius  |-> params.radius,
            is_spherical |-> "True"]]

\* on_calculate_nearfield, the planar branch
planar_nearfield(params) ==
    LET x      == linspace(0 - params.x_extent, params.x_extent, params.x_points)
        y      == linspace(0 - params.y_extent, params.y_extent, params.y_points)
        X      == meshgrid(x, y)[1]
        Y      == meshgrid(x, y)[2]
        Z      == full_like(X, params.z_distance)
        sph    == cartesian_to_spherical(ravel(X), ravel(Y), ravel(Z))
        args   == <<sph["r"], sph["theta"], sph["phi"]>>
        fields == near_field(args[1], args[2], args[3])
        shp    == shape(X)
    IN [evaluation |-> [args |-> args, fields |-> fields],
        nf_data |->
           [E_r     |-> reshape(fields["E_r"], shp),
            E_theta |-> reshape(fields["E_theta"], shp),
            E_phi   |-> reshape(fields["E_phi"], shp),
            H_r     |-> reshape(fields["H_r"], shp),
            H_theta |-> reshape(fields["H_theta"], shp),
            H_phi   |-> reshape(fields["H_phi"], shp),
            x       |-> x,
            y       |-> y,
            x_extent   |-> params.x_extent,
            y_extent   |-> params.y_extent,
            z_distance |-> params.z_distance,
            is_spherical |-> "False"]]

nearfield_arrays(params) ==
    IF params.surface_type = "spherical"
    THEN spherical_nearfield(params)
    ELSE planar_nearfield(params)

\* PlotNearFieldWidget._compute_cartesian_components: the grid is built
\* again from x and y, the stored components are flattened, converted
\* pointwise and reshaped; the six results are added to the dictionary.
compute_cartesian_components(data) ==
    LET X     == meshgrid(data.x, data.y)[1]
        Y     == meshgrid(data.x, data.y)[2]
        Z     == full_like(X, data.z_distance)
        sph   == cartesian_to_spherical(ravel(X), ravel(Y), ravel(Z))
        E     == spherical_to_cartesian_field(
                     ravel(data.E_r), ravel(data.E_theta), ravel(data.E_phi),
                     sph["theta"], sph["phi"])
        H     == spherical_to_cartesian_field(
                     ravel(data.H_r), ravel(data.H_theta), ravel(data.H_phi),
                     sph["theta"], sph["phi"])
        shp   == shape(X)
        added == [E_x |-> reshape(E["x"], shp),
                  E_y |-> reshape(E["y"], shp),
                  E_z |-> reshape(E["z"], shp),
                  H_x |-> reshape(H["x"], shp),
                  H_y |-> reshape(H["y"], shp),
                  H_z |-> reshape(H["z"], shp)]
    IN DictUpdate(data, added)

\* PlotNearFieldWidget.plot_near_field up to the drawing
plot_near_field(data) ==
    IF data.is_spherical = "False"
    THEN compute_cartesian_components(data)
    ELSE data

\* ================================================ SWE power distributions
\* A coefficient is a complex number <<re, im>>; Q1_coeffs and Q2_coeffs map
\* modes <<n, m>> to coefficients.
\* abs(q)**2
AbsSquared(q) == q[1] * q[1] + q[2] * q[2]

\* d.get(key, default)
Get(d, key, default) == IF key \in DOMAIN d THEN d[key] ELSE default

\* abs(m)
Abs(m) == IF m < 0 THEN 0 - m ELSE m

NoCoefficients == [mode \in {} |-> <<0, 0>>]
NoPowers == [k \in {} |-> 0]

\* the modes of the first map only
all_modes_OfQ1(swe) == DOMAIN swe.Q1_coeffs

\* set(swe.Q1_coeffs.keys()) | set(swe.Q2_coeffs.keys())
all_modes(swe) == (DOMAIN swe.Q1_coeffs) \cup (DOMAIN swe.Q2_coeffs)

\* the loop "for (n, m) in all_modes", one mode per turn
RECURSIVE PowerLoop(_, _, _)
PowerLoop(swe, modes, acc) ==
    IF modes = {}
    THEN acc
    ELSE LET mode == CHOOSE x \in modes : TRUE
             q1 == Get(swe.Q1_coeffs, mode, <<0, 0>>)
             q2 == Get(swe.Q2_coeffs, mode, <<0, 0>>)
             mode_power == AbsSquared(q1) + AbsSquared(q2)
             n == mode[1]
             m == Abs(mode[2])
         IN PowerLoop(swe, modes \ {mode},
                [power_per_n |-> DictSet(acc.power_per_n, n,
                                    Get(acc.power_per_n, n, 0) + mode_power),
                 power_per_m |-> DictSet(acc.power_per_m, m,
                                    Get(acc.power_per_m, m, 0) + mode_power)])

\* AnalysisPanel._compute_power_distributions
compute_power_distributions(swe) ==
    PowerLoop(swe, all_modes(swe),
              [power_per_n |-> NoPowers, power_per_m |-> NoPowers])

\* array.sum() and np.cumsum(array)
RECURSIVE ArraySum(_)
ArraySum(array) ==
    IF array = <<>> THEN 0 ELSE array[1] + ArraySum(Tail(array))

cumsum(array) == [i \in 1..Len(array) |-> ArraySum(SubSeq(array, 1, i))]

\* A float that came out of a division is kept as the division; 0.0 and
\* -150.0 are written by the branch that does not divide.
Divided(a, b) == [num |-> a, den |-> b]
Zero == [num |-> 0, den |-> 1]
Floor == [db |-> 0 - 150]

\* the power summary that divides whatever the total is
plot_power_distributions_AlwaysDivides(power_per_n, power_per_m) ==
    LET n_values    == Sorted(DOMAIN power_per_n)
        powers_n    == [i \in 1..Len(n_values) |-> power_per_n[n_values[i]]]
        total_power == ArraySum(powers_n)
        m_values    == Sorted(DOMAIN power_per_m)
        powers_m    == [i \in 1..Len(m_values) |-> power_per_m[m_values[i]]]
    IN [n_values    |-> n_values,
        total_power |-> total_power,
        cumulative  |-> [i \in 1..Len(powers_n) |->
                            Divided(cumsum(powers_n)[i] * 100, total_power)],
        m_values    |-> m_values,
        powers_m_db |-> [i \in 1..Len(powers_m) |->
                            [db_of |-> Divided(powers_m[i], total_power)]]]

\* AnalysisPanel._plot_power_distributions: the two series it draws
plot_power_distributions(power_per_n, power_per_m) ==
    LET n_values    == Sorted(DOMAIN power_per_n)
        powers_n    == [i \in 1..Len(n_values) |-> power_per_n[n_values[i]]]
        total_power == ArraySum(powers_n)
        m_values    == Sorted(DOMAIN power_per_m)
        powers_m    == [i \in 1..Len(m_values) |-> power_per_m[m_values[i]]]
    IN [n_values    |-> n_values,
        total_power |-> total_power,
        cumulative  |-> IF total_power > 0
                        THEN [i \in 1..Len(powers_n) |->
                                 Divided(cumsum(powers_n)[i] * 100, total_power)]
                        ELSE [i \in 1..Len(powers_n) |-> Zero],
        m_values    |-> m_values,
        powers_m_db |-> IF total_power > 0
                        THEN [i \in 1..Len(powers_m) |->
                                 [db_of |-> Divided(powers_m[i], total_power)]]
                        ELSE [i \in 1..Len(powers_m) |-> Floor]]

\* AnalysisPanel.display_swe_results, from "Compute and plot power
\* distributions" on
NoFigure == [shown |-> FALSE]
NoSWE == [Q1_coeffs |-> NoCoefficients, Q2_coeffs |-> NoCoefficients]

display_swe_results(swe) ==
    LET powers == compute_power_distributions(swe)
    IN [shown       |-> TRUE,
        power_per_n |-> powers.power_per_n,
        power_per_m |-> powers.power_per_m,
        plot        |-> plot_power_distributions(powers.power_per_n,
                                                 powers.power_per_m)]

\* ================================================================ machine
\* An id no instance ever had (a stale or mistyped reference).
UnknownId == MaxIds + 1
ArgIds == (1..(nextId - 1)) \cup {UnknownId}

InitModel ==
    /\ instances = <<>>
    /\ active_instance_id = NoneId
    /\ comparison_instance_ids = {}
    /\ pattern = NoPattern
    /\ original_pattern = NoPattern
    /\ file_path = NoneId
    /\ processing_state = InitialProcessingState
    /\ view_params = InitialViewParams
    /\ emitted = <<>>
    /\ run = NoRun
    /\ lastCall = [op |-> "init", arg |-> NoneId, raised |-> FALSE,
                   was_registered |-> FALSE, was_compared |-> FALSE,
                   pre_active |-> NoneId, pre_pol |-> NoneStr,
                   request |-> <<>>]
    /\ nextId = 1
    /\ failures = 0
    /\ swe_jobs = <<>>
    /\ analysis_tab = InitialAnalysisTab
    /\ gui_thread = "event_loop"
    /\ near_field_data = NoData
    /\ evaluation = NoEvaluation
    /\ power_figure = NoFigure
    /\ comparison_status = NoStatus

\* A session whose set_<option> calls are not put on record
Untracked == <<[slot |-> "untracked", value |-> NoneStr]>>

Init ==
    /\ InitModel
    /\ trace = Untracked
    /\ nf_params = NoParams
    /\ swe_obj = NoSWE

\* A session whose set_<option> calls since the load are put on record.
InitTraced ==
    /\ InitModel
    /\ trace = <<>>
    /\ nf_params = NoParams
    /\ swe_obj = NoSWE

\* The near-field group with any values in its spin boxes.
NearfieldParams ==
    {[surface_type |-> "spherical", theta_points |-> t, phi_points |-> p,
      radius |-> r] :
        t \in 1..MaxPoints, p \in 1..MaxPoints, r \in Radii}
    \cup
    {[surface_type |-> "planar", x_points |-> nx, y_points |-> ny,
      x_extent |-> ex, y_extent |-> ey, z_distance |-> z] :
        nx \in 1..MaxPoints, ny \in 1..MaxPoints,
        ex \in Extents, ey \in Extents, z \in ZDistances}

InitGrid ==
    /\ InitModel
    /\ trace = Untracked
    /\ nf_params \in NearfieldParams
    /\ swe_obj = NoSWE

\* An SWE object with at most MaxModes modes in its two maps together.
SWEObjects ==
    UNION {[Q1_coeffs : [K[1] -> Coefficients], Q2_coeffs : [K[2] -> Coefficients]] :
              K \in {L \in (SUBSET Modes) \X (SUBSET Modes) :
                        Cardinality(L[1] \cup L[2]) <= MaxModes}}

InitPower ==
    /\ InitModel
    /\ trace = Untracked
    /\ nf_params = NoParams
    /\ swe_obj \in SWEObjects

Tracking == trace = <<>> \/ trace[1].slot # "untracked"

\* The record starts again with every load, holds the calls made on the
\* loaded pattern, at most MaxTrace of them, and ends with the first call
\* that raises.
NextTrace(op, entry, raised) ==
    IF ~Tracking THEN trace
    ELSE IF op = "set_pattern" THEN <<>>
    ELSE IF entry = <<>> THEN trace
    ELSE IF entry[1].slot \notin DOMAIN InitialProcessingState THEN trace
    ELSE IF original_pattern = NoPattern THEN trace
    ELSE IF raised THEN Untracked
    ELSE trace \o entry

\* The call op(arg) took the session to the record result.
PatternLoadedEmitted(S) ==
    \E i \in 1..Len(S.emitted) : S.emitted[i].signal = "pattern_loaded"

\* Every call is a slot or a call made from one: it runs on the thread of
\* the event loop, and pattern_loaded reaches ControlPanelWidget.
CommitCall(result, op, arg, entry) ==
    \E S \in {result} :
        /\ gui_thread = "event_loop"
        /\ UNCHANGED <<gui_thread, swe_jobs>>
        /\ UNCHANGED plot_vars
        /\ comparison_status' = Notified(comparison_status, S.emitted)
        /\ analysis_tab' = IF PatternLoadedEmitted(S)
                           THEN update_pattern(analysis_tab, swe_jobs, S.pattern)
                           ELSE analysis_tab
        /\ instances' = S.instances
        /\ active_instance_id' = S.active_instance_id
        /\ comparison_instance_ids' = S.comparison_instance_ids
        /\ pattern' = S.pattern
        /\ original_pattern' = S.original_pattern
        /\ file_path' = S.file_path
        /\ processing_state' = S.processing_state
        /\ view_params' = S.view_params
        /\ emitted' = S.emitted
        /\ run' = S.run
        /\ lastCall' = [op |-> op, arg |-> arg, raised |-> S.raised,
                        was_registered |-> arg \in Keys(instances),
                        was_compared |-> arg \in comparison_instance_ids,
                        pre_active |-> active_instance_id,
                        pre_pol |-> pattern.pol,
                        request |-> entry]
        /\ failures' = IF S.run.raised THEN failures + 1 ELSE failures
        /\ failures' <= MaxFailures
        /\ trace' = NextTrace(op, entry, S.raised)
        /\ Len(trace') <= MaxTrace

Commit(result, op, arg) == CommitCall(result, op, arg, <<>>)

\* The transform that raises during a call, if any: at most MaxFailures
\* calls raise.
FailChoices ==
    {NoFail} \cup (IF failures < MaxFailures THEN Methods ELSE {})

\* A set_<option> call during which the transform named by fail raised, or
\* none did.
ProcessingCall(result, op, slot, value, fail) ==
    /\ fail = NoFail \/ result.run.raised
    /\ CommitCall(result, op, NoneId,
                  <<[slot |-> slot, value |-> value]>>)

\* AntennaPatternWidget.open_pattern: a pattern read from a file is handed
\* to set_pattern directly, with no instance behind it.
OpenedPattern ==
    [src |-> NoneId, ops |-> <<>>, pol |-> LoadedPolarization,
     frequencies |-> LoadedFrequencies, phi_angles |-> LoadedPhiAngles]

OpenPattern ==
    /\ Commit(set_pattern(Session, OpenedPattern, NoneId), "set_pattern", NoneId)
    /\ UNCHANGED nextId

AddInstance ==
    /\ nextId <= MaxIds
    /\ Commit(add_instance(Session, NewInstance(nextId)), "add_instance", nextId)
    /\ nextId' = nextId + 1

\* A file with the given frequency and phi sampling is loaded.
LoadedInstance(id, frequencies, phi_angles) ==
    [NewInstance(id) EXCEPT !.pattern.frequencies = frequencies,
                            !.pattern.phi_angles = phi_angles]

LoadInstance ==
    \E f \in FrequencyArrays, p \in PhiArrays :
        /\ nextId <= MaxIds
        /\ Commit(add_instance(Session, LoadedInstance(nextId, f, p)),
                  "add_instance", nextId)
        /\ nextId' = nextId + 1

RemoveInstance ==
    \E id \in ArgIds :
        /\ Commit(remove_instance(Session, id), "remove_instance", id)
        /\ UNCHANGED nextId

SetActiveInstance ==
    \E id \in ArgIds :
        /\ Commit(set_active_instance(Session, id), "set_active_instance", id)
        /\ UNCHANGED nextId

AddToComparison ==
    \E id \in ArgIds :
        /\ Commit(add_to_comparison(Session, id), "add_to_comparison", id)
        /\ UNCHANGED nextId

RenameInstance ==
    \E id \in ArgIds, new_name \in NewNames :
        /\ Commit(rename_instance(Session, id, new_name), "rename_instance", id)
        /\ UNCHANGED nextId

RemoveFromComparison ==
    \E id \in ArgIds :
        /\ Commit(remove_from_comparison(Session, id),
                  "remove_from_comparison", id)
        /\ UNCHANGED nextId

SetViewParam ==
    /\ \/ \E v \in FrequencySelections :
            Commit(set_view_param(Session, "selected_frequencies", v),
                   "set_view_param", NoneId)
       \/ \E v \in PlotTypes :
            Commit(set_view_param(Session, "plot_type", v),
                   "set_view_param", NoneId)
    /\ UNCHANGED nextId

SetPhaseCenterTranslation ==
    \E v \in Translations \cup {NoneStr}, fail \in FailChoices :
        /\ ProcessingCall(set_phase_center_translation(Session, v, fail),
                          "set_phase_center_translation",
                          "phase_center_translation", v, fail)
        /\ UNCHANGED nextId

SetMars ==
    \E v \in MaxExtents \cup {NoneStr}, fail \in FailChoices :
        /\ ProcessingCall(set_mars(Session, v, fail),
                          "set_mars",
                          "mars_max_extent", v, fail)
        /\ UNCHANGED nextId

SetCoordinateFormat ==
    \E v \in CoordinateFormats \cup {NoneStr}, fail \in FailChoices :
        /\ ProcessingCall(set_coordinate_format(Session, v, fail),
                          "set_coordinate_format",
                          "coordinate_format", v, fail)
        /\ UNCHANGED nextId

SetThetaOriginShift ==
    \E v \in ThetaOffsets \cup {NoneStr}, fail \in FailChoices :
        /\ ProcessingCall(set_theta_origin_shift(Session, v, fail),
                          "set_theta_origin_shift",
                          "theta_origin_shift", v, fail)
        /\ UNCHANGED nextId

SetPhiOriginShift ==
    \E v \in PhiOffsets \cup {NoneStr}, fail \in FailChoices :
        /\ ProcessingCall(set_phi_origin_shift(Session, v, fail),
                          "set_phi_origin_shift",
                          "phi_origin_shift", v, fail)
        /\ UNCHANGED nextId

SetAmplitudeNormalization ==
    \E v \in NormTypes \cup {NoneStr}, fail \in FailChoices :
        /\ ProcessingCall(set_amplitude_normalization(Session, v, fail),
                          "set_amplitude_normalization",
                          "amplitude_normalization", v, fail)
        /\ UNCHANGED nextId

SetBoresightNormalization ==
    \E v \in BOOLEAN, fail \in FailChoices :
        /\ ProcessingCall(set_boresight_normalization(Session, v, fail),
                          "set_boresight_normalization",
                          "boresight_normalization", v, fail)
        /\ UNCHANGED nextId

OnPolarizationChanged ==
    \E v \in Polarizations :
        /\ CommitCall(on_polarization_changed(Session, v),
                      "on_polarization_changed", NoneId,
                      <<[slot |-> "polarization", value |-> v]>>)
        /\ UNCHANGED nextId

\* The analysis side as one record, and a slot of it that ran.
Analysis ==
    [jobs |-> swe_jobs, tab |-> analysis_tab, emitted |-> <<>>, raised |-> FALSE]

AnalysisCall(result, op, entry) ==
    \E A \in {result} :
        /\ swe_jobs' = A.jobs
        /\ analysis_tab' = A.tab
        /\ emitted' = A.emitted
        /\ run' = NoRun
        /\ lastCall' = [op |-> op, arg |-> NoneId, raised |-> A.raised,
                        was_registered |-> FALSE, was_compared |-> FALSE,
                        pre_active |-> active_instance_id,
                        pre_pol |-> pattern.pol,
                        request |-> entry]
        /\ UNCHANGED <<instances, active_instance_id, comparison_instance_ids,
                       comparison_status,
                       pattern, original_pattern, file_path, processing_state,
                       view_params, nextId, failures, trace>>
        /\ UNCHANGED plot_vars

\* At most MaxJobs workers are started.
OnCalculateSWE ==
    /\ gui_thread = "event_loop"
    /\ Len(on_calculate_swe(swe_jobs, pattern)) <= MaxJobs
    /\ AnalysisCall([Analysis EXCEPT
                         !.jobs = on_calculate_swe(@, pattern),
                         !.tab = on_calculate_swe_btn(@, swe_jobs, pattern)],
                    "on_calculate_swe",
                    <<[slot |-> "isRunning", value |-> isRunning(swe_jobs)]>>)
    /\ UNCHANGED gui_thread

\* AnalysisPanel.on_calculate_swe passes nmax and mmax, which
\* SWEWorker.__init__ does not take: the TypeError is caught and shown, no
\* worker is stored or started.
AnalysisPanelOnCalculateSWE ==
    /\ gui_thread = "event_loop"
    /\ AnalysisCall(Analysis, "AnalysisPanel.on_calculate_swe", <<>>)
    /\ UNCHANGED gui_thread

\* The worker thread: it runs whatever the thread of the event loop does.
SWEWorkerRun ==
    \E i \in 1..Len(swe_jobs), fail \in BOOLEAN :
        /\ swe_jobs[i].state = "running"
        /\ swe_jobs' = [swe_jobs EXCEPT ![i] = SWEWorker_run(@, fail)]
        /\ lastCall' = [op |-> "SWEWorker.run", arg |-> NoneId,
                        raised |-> FALSE,
                        was_registered |-> FALSE, was_compared |-> FALSE,
                        pre_active |-> active_instance_id,
                        pre_pol |-> pattern.pol,
                        request |-> <<>>]
        /\ UNCHANGED <<instances, active_instance_id, comparison_instance_ids,
                       comparison_status,
                       pattern, original_pattern, file_path, processing_state,
                       view_params, emitted, run, nextId, failures,
                       trace, analysis_tab, gui_thread>>
        /\ UNCHANGED plot_vars

OnSWEFinished ==
    /\ gui_thread = "event_loop"
    /\ Queued(swe_jobs) # {}
    /\ swe_jobs[NextQueued(swe_jobs)].state = "finished"
    /\ AnalysisCall(on_swe_finished(Analysis, NextQueued(swe_jobs), pattern),
                    "on_swe_finished", <<>>)
    /\ UNCHANGED gui_thread

OnSWEError ==
    /\ gui_thread = "event_loop"
    /\ Queued(swe_jobs) # {}
    /\ swe_jobs[NextQueued(swe_jobs)].state = "failed"
    /\ AnalysisCall(on_swe_error(Analysis, NextQueued(swe_jobs)),
                    "on_swe_error", <<>>)
    /\ UNCHANGED gui_thread

\* on_calculate_nearfield up to the evaluator call: it returns at once
\* without a pattern or before an SWE was calculated; the lookup of
\* pattern.swe raises when the current pattern carries none, and
\* cartesian_to_spherical may raise for a plane; otherwise the thread of the
\* event loop enters swe.near_field.
OnCalculateNearfield ==
    \E surface \in SurfaceTypes, fail \in {NoFail, "cartesian_to_spherical"} :
        /\ gui_thread = "event_loop"
        /\ fail = "cartesian_to_spherical" => surface = "planar"
        /\ LET returns == pattern = NoPattern \/ ~analysis_tab.swe_calculated
               failed  == IF ~HasSWE(swe_jobs, pattern) THEN "pattern.swe"
                          ELSE fail
           IN /\ AnalysisCall(Analysis, "on_calculate_nearfield",
                              <<[slot |-> IF returns THEN "returned" ELSE surface,
                                 value |-> IF returns THEN NoFail ELSE failed]>>)
              /\ gui_thread' = IF returns \/ failed # NoFail
                               THEN "event_loop"
                               ELSE surface

\* swe.near_field returns or raises, and the rest of the slot runs.
NearfieldEvaluated ==
    \E fail \in {NoFail} \cup {NearfieldSteps[i] : i \in 1..Len(NearfieldSteps)} :
        /\ gui_thread \in SurfaceTypes
        /\ AnalysisCall(nearfield_evaluated(Analysis, gui_thread, fail),
                        "nearfield_evaluated",
                        <<[slot |-> gui_thread, value |-> fail]>>)
        /\ gui_thread' = "event_loop"

\* The arrays of a near-field request: the grid is built from the spin
\* boxes, the evaluator is called once and its result is reshaped.
CalculateNearfieldArrays ==
    /\ nf_params # NoParams
    /\ near_field_data' = nearfield_arrays(nf_params).nf_data
    /\ evaluation' = nearfield_arrays(nf_params).evaluation
    /\ UNCHANGED <<instances, active_instance_id, comparison_instance_ids,
                   comparison_status,
                   pattern, original_pattern, file_path, processing_state,
                   view_params, emitted, run, lastCall, nextId, failures,
                   trace, swe_jobs, analysis_tab, gui_thread,
                   nf_params, swe_obj, power_figure>>

\* PlotNearFieldWidget.plot_near_field: the dictionary itself is stored and
\* extended.
PlotNearField ==
    /\ near_field_data # NoData
    /\ near_field_data' = plot_near_field(near_field_data)
    /\ UNCHANGED <<instances, active_instance_id, comparison_instance_ids,
                   comparison_status,
                   pattern, original_pattern, file_path, processing_state,
                   view_params, emitted, run, lastCall, nextId, failures,
                   trace, swe_jobs, analysis_tab, gui_thread,
                   nf_params, evaluation, swe_obj, power_figure>>

\* AnalysisPanel.display_swe_results on the SWE object delivered.
DisplaySWEResults ==
    /\ power_figure' = display_swe_results(swe_obj)
    /\ UNCHANGED <<instances, active_instance_id, comparison_instance_ids,
                   comparison_status,
                   pattern, original_pattern, file_path, processing_state,
                   view_params, emitted, run, lastCall, nextId, failures,
                   trace, swe_jobs, analysis_tab, gui_thread,
                   nf_params, near_field_data, evaluation, swe_obj>>

Next ==
    \/ OpenPattern
    \/ AddInstance
    \/ RemoveInstance
    \/ SetActiveInstance
    \/ AddToComparison
    \/ RemoveFromComparison
    \/ SetViewParam
    \/ SetPhaseCenterTranslation
    \/ SetMars
    \/ SetCoordinateFormat
    \/ SetThetaOriginShift
    \/ SetPhiOriginShift
    \/ SetAmplitudeNormalization
    \/ SetBoresightNormalization
    \/ OnPolarizationChanged
    \/ LoadInstance
    \/ RenameInstance
    \/ OnCalculateSWE
    \/ AnalysisPanelOnCalculateSWE
    \/ SWEWorkerRun
    \/ OnSWEFinished
    \/ OnSWEError
    \/ OnCalculateNearfield
    \/ NearfieldEvaluated
    \/ CalculateNearfieldArrays
    \/ PlotNearField
    \/ DisplaySWEResults

Spec == Init /\ [][Next]_vars

\* The registry: the five operations on instances, active id and
\* comparison set.
NextRegistry ==
    \/ AddInstance
    \/ RemoveInstance
    \/ SetActiveInstance
    \/ AddToComparison
    \/ RemoveFromComparison

SpecRegistry == Init /\ [][NextRegistry]_vars

\* The session around the active instance: loading, unloading and switching
\* with a processing option in between.
NextSession ==
    \/ AddInstance
    \/ RemoveInstance
    \/ SetActiveInstance
    \/ SetAmplitudeNormalization

SpecSession == Init /\ [][NextSession]_vars

\* Switching the active instance with view-parameter edits in between.
NextView ==
    \/ AddInstance
    \/ SetActiveInstance
    \/ SetViewParam

SpecView == Init /\ [][NextView]_vars

\* The pipeline: every processing option on a pattern opened from a file.
NextPipeline ==
    \/ OpenPattern
    \/ SetPhaseCenterTranslation
    \/ SetMars
    \/ SetCoordinateFormat
    \/ SetThetaOriginShift
    \/ SetPhiOriginShift
    \/ SetAmplitudeNormalization
    \/ SetBoresightNormalization

SpecPipeline == Init /\ [][NextPipeline]_vars

\* Polarization changes on a pattern opened from a file, with two processing
\* options around them.
NextPolarization ==
    \/ OpenPattern
    \/ OnPolarizationChanged
    \/ SetCoordinateFormat
    \/ SetAmplitudeNormalization

SpecPolarization == Init /\ [][NextPolarization]_vars

\* The operations that ignore an id that is not registered.
NextGuarded ==
    \/ AddInstance
    \/ RemoveInstance
    \/ RenameInstance
    \/ AddToComparison

SpecGuarded == Init /\ [][NextGuarded]_vars

\* The comparison set over files of different sampling.
NextCompatibility ==
    \/ LoadInstance
    \/ AddToComparison
    \/ RemoveFromComparison

SpecCompatibility == Init /\ [][NextCompatibility]_vars

\* SWE calculations while the current pattern is loaded and replaced.
NextSWE ==
    \/ OpenPattern
    \/ OnPolarizationChanged
    \/ OnCalculateSWE
    \/ AnalysisPanelOnCalculateSWE
    \/ SWEWorkerRun
    \/ OnSWEFinished
    \/ OnSWEError

SpecSWE == Init /\ [][NextSWE]_vars

\* The same with the scheduling the claim assumes: a computation that was
\* started returns or raises, and the event loop delivers the signals that
\* are queued for it.
SpecSWELive ==
    /\ Init
    /\ [][NextSWE]_vars
    /\ WF_vars(SWEWorkerRun)
    /\ WF_vars(OnSWEFinished)
    /\ WF_vars(OnSWEError)

\* Near-field evaluations on a pattern with an SWE.
NextNearfield ==
    \/ OpenPattern
    \/ OnCalculateSWE
    \/ SWEWorkerRun
    \/ OnSWEFinished
    \/ OnSWEError
    \/ OnCalculateNearfield
    \/ NearfieldEvaluated

SpecNearfield == Init /\ [][NextNearfield]_vars

\* Processing and polarization changes on loaded instances.
NextOriginal ==
    \/ AddInstance
    \/ SetActiveInstance
    \/ SetCoordinateFormat
    \/ SetAmplitudeNormalization
    \/ OnPolarizationChanged

SpecOriginal == Init /\ [][NextOriginal]_vars

\* The pipeline with the calls since the load on record.
SpecToggle == InitTraced /\ [][NextPipeline]_vars

\* The near-field arrays for every setting of the spin boxes.
NextGrid ==
    \/ CalculateNearfieldArrays
    \/ PlotNearField

SpecGrid == InitGrid /\ [][NextGrid]_vars

\* The power summary of every SWE object.
NextPower == DisplaySWEResults

SpecPower == InitPower /\ [][NextPower]_vars

\* ================================================================= claims
IsCall(op) == lastCall.op = op

\* C1: after any sequence of add_instance / remove_instance /
\* set_active_instance / add_to_comparison / remove_from_comparison calls,
\* also calls that raised, the active id is None or a key of the instances
\* map.
C1_ActiveIsNoneOrRegistered ==
    active_instance_id = NoneId \/ active_instance_id \in Keys(instances)

\* C2: after any sequence of those calls every id of the comparison set is a
\* key of the instances map, and the id given to remove_instance is not in
\* the comparison set after the call.
C2_ComparisonSubsetOfInstances ==
    /\ comparison_instance_ids \subseteq Keys(instances)
    /\ IsCall("remove_instance") => lastCall.arg \notin comparison_instance_ids

\* remove_instance has just unloaded an instance that was in the comparison
\* set, and another compared instance is still there.
C2_Witness ==
    /\ IsCall("remove_instance")
    /\ lastCall.was_registered
    /\ lastCall.was_compared
    /\ comparison_instance_ids # {}

\* C3: when remove_instance removes the only registered instance, which is
\* the active one, the active id is None afterwards, observers are told that
\* the active instance is None, and none is handed the removed instance.
RemovedOnlyActive ==
    /\ IsCall("remove_instance")
    /\ lastCall.was_registered
    /\ lastCall.pre_active = lastCall.arg
    /\ instances = <<>>

C3_RemoveLastLeavesNoActive ==
    RemovedOnlyActive =>
        /\ active_instance_id = NoneId
        /\ \E i \in 1..Len(emitted) :
               /\ emitted[i].signal = "active_instance_changed"
               /\ emitted[i].arg = NoneId
        /\ \A i \in 1..Len(emitted) :
               emitted[i].signal = "active_instance_changed"
                   => emitted[i].arg # lastCall.arg

\* C4: when remove_instance removes the active instance while another
\* instance is registered, the new active instance is the first remaining
\* one in insertion order, it is not the removed id, and the current (and
\* original) pattern is that instance's pattern.
RemovedActiveOthersRemain ==
    /\ IsCall("remove_instance")
    /\ lastCall.was_registered
    /\ lastCall.pre_active = lastCall.arg
    /\ instances # <<>>

C4_RemoveActivePromotesFirstRemaining ==
    RemovedActiveOthersRemain =>
        /\ active_instance_id = instances[1].instance_id
        /\ active_instance_id # lastCall.arg
        /\ pattern = instances[1].pattern
        /\ original_pattern = instances[1].pattern

\* The active instance was removed while two others were registered, and it
\* was not the oldest of the three, so that the first remaining instance is
\* neither the last remaining one nor the one that followed the removed one.
C4_Witness ==
    /\ RemovedActiveOthersRemain
    /\ Len(instances) >= 2
    /\ instances[1].instance_id < lastCall.arg
    /\ instances[Len(instances)].instance_id > lastCall.arg

\* C5: add_instance makes the added instance active exactly when it is the
\* first instance of the registry; added to a non-empty registry it leaves
\* the active id, the current pattern and the processing state unchanged.
C5_AddActivatesOnlyFirst ==
    [][nextId' = nextId + 1 =>
        IF instances = <<>>
        THEN /\ active_instance_id' = nextId
             /\ pattern' = NewInstance(nextId).pattern
        ELSE /\ active_instance_id' = active_instance_id
             /\ active_instance_id' # nextId
             /\ pattern' = pattern
             /\ original_pattern' = original_pattern
             /\ processing_state' = processing_state]_vars

\* An instance was added next to an active instance whose processing state
\* has an option set.
C5_Witness ==
    /\ IsCall("add_instance")
    /\ Len(instances) >= 2
    /\ active_instance_id \in Keys(instances)
    /\ active_instance_id # lastCall.arg
    /\ processing_state.amplitude_normalization # NoneStr
    /\ pattern # original_pattern

\* C6: set_active_instance with an id that is not registered leaves active
\* id, instances with their saved view parameters, comparison set and
\* current pattern as they were before the call.
C6_SetActiveUnknownChangesNothing ==
    [][(lastCall'.op = "set_active_instance" /\ ~lastCall'.was_registered) =>
        /\ active_instance_id' = active_instance_id
        /\ instances' = instances
        /\ comparison_instance_ids' = comparison_instance_ids
        /\ view_params' = view_params
        /\ pattern' = pattern]_vars

\* C7: view parameters are remembered per instance: when set_active(B) is
\* followed by set_active(A), A being the instance that was active before,
\* the session's view-parameter map is again the map that was in effect for
\* A when it was switched away from (the map saved on A's record).
C7_SwitchBackRestoresViewParams ==
    [][(/\ lastCall.op = "set_active_instance"
        /\ ~lastCall.raised
        /\ lastCall.pre_active \in Keys(instances)
        /\ lastCall.pre_active # lastCall.arg
        /\ lastCall'.op = "set_active_instance"
        /\ lastCall'.arg = lastCall.pre_active)
       => view_params' = Lookup(instances, lastCall.pre_active).view_params]_vars

\* C8: processing is recorded per pattern record: a successful set_<option>
\* call leaves the processed pattern on the active instance's record, and
\* re-selecting the active instance leaves processing state and current
\* pattern as they were.
SetOptionCalls ==
    {"set_phase_center_translation", "set_mars", "set_coordinate_format",
     "set_theta_origin_shift", "set_phi_origin_shift",
     "set_amplitude_normalization", "set_boresight_normalization"}

C8_ProcessingKeptPerInstance ==
    [][/\ (/\ lastCall'.op \in SetOptionCalls
           /\ ~lastCall'.raised
           /\ active_instance_id' \in Keys(instances'))
          => Lookup(instances', active_instance_id').pattern = pattern'
       /\ (/\ lastCall'.op = "set_active_instance"
           /\ lastCall'.was_registered
           /\ lastCall'.pre_active = lastCall'.arg)
          => /\ processing_state' = processing_state
             /\ pattern' = pattern]_vars

\* C9: every run of apply_processing invokes the transforms of the set slots
\* on a copy of the original, in the order coordinate_format,
\* amplitude_normalization, boresight_normalization, theta_origin_shift,
\* phi_origin_shift, phase_center_translation, mars_max_extent, whatever
\* order the slots were set in; a run that a transform aborts by raising
\* has invoked them in that order up to the one that raised.
MethodOf(slot) ==
    CASE slot = "coordinate_format"        -> "transform_coordinates"
      [] slot = "amplitude_normalization"  -> "normalize_amplitude"
      [] slot = "boresight_normalization"  -> "normalize_at_boresight"
      [] slot = "theta_origin_shift"       -> "shift_theta_origin"
      [] slot = "phi_origin_shift"         -> "shift_phi_origin"
      [] slot = "phase_center_translation" -> "translate"
      [] slot = "mars_max_extent"          -> "apply_mars"

IsSet(st, slot) ==
    IF slot = "boresight_normalization" THEN st[slot] ELSE st[slot] # NoneStr

ArgOf(st, slot) ==
    IF slot = "boresight_normalization" THEN NoneStr ELSE st[slot]

SetSlots(st) == LET F(slot) == IsSet(st, slot) IN SelectSeq(Slots, F)

ExpectedCalls(st) ==
    [i \in 1..Len(SetSlots(st)) |-> MethodOf(SetSlots(st)[i])]

ExpectedOps(st) ==
    [i \in 1..Len(SetSlots(st)) |->
        <<MethodOf(SetSlots(st)[i]), ArgOf(st, SetSlots(st)[i])>>]

C9_TransformsInFixedOrder ==
    run.ran =>
        IF run.raised
        THEN /\ run.calls # <<>>
             /\ Len(run.calls) <= Len(ExpectedCalls(processing_state))
             /\ run.calls = SubSeq(ExpectedCalls(processing_state),
                                   1, Len(run.calls))
        ELSE /\ run.calls = ExpectedCalls(processing_state)
             /\ pattern.ops = original_pattern.ops \o ExpectedOps(processing_state)
             /\ original_pattern.ops = <<>>

\* All seven slots are set and the slot set last was coordinate_format, the
\* one whose transform runs first.
C9_Witness ==
    /\ IsCall("set_coordinate_format")
    /\ run.ran /\ ~run.raised
    /\ Len(run.calls) = 7

\* C10: after every successful set_<option> call on a loaded pattern the
\* current pattern is apply(original, processing_state): the original with
\* the transforms of the set slots and nothing else, whatever the current
\* pattern was before the call.
Apply(original, st) == [original EXCEPT !.ops = @ \o ExpectedOps(st)]

C10_CurrentIsApplyOfOriginal ==
    (/\ lastCall.op \in SetOptionCalls
     /\ ~lastCall.raised
     /\ original_pattern # NoPattern)
        => pattern = Apply(original_pattern, processing_state)

\* A call succeeded, replaying at least two transforms, in a session where
\* an earlier call had raised and left a pattern that was not
\* apply(original, processing_state).
C10_Witness ==
    /\ lastCall.op \in SetOptionCalls
    /\ ~lastCall.raised
    /\ original_pattern # NoPattern
    /\ failures > 0
    /\ Len(pattern.ops) >= 2

\* C11: for two distinct slots A and B, the calls enable A, enable B,
\* disable A on a freshly loaded original leave the processing state and the
\* current pattern that enable B alone leaves on that loaded original.
Enables(entry) ==
    IF entry.slot = "boresight_normalization"
    THEN entry.value
    ELSE entry.value # NoneStr

EnableA_EnableB_DisableA ==
    /\ Tracking
    /\ original_pattern # NoPattern
    /\ Len(trace) = 3
    /\ trace[1].slot # trace[2].slot
    /\ trace[3].slot = trace[1].slot
    /\ Enables(trace[1])
    /\ Enables(trace[2])
    /\ ~Enables(trace[3])

\* enable B alone, on the session as set_pattern leaves it for this original
EnableAlone(entry) ==
    SetOption(set_pattern(Session, original_pattern, file_path),
              entry.slot, entry.value, entry.slot, NoFail)

C11_ToggleOrderIndependent ==
    EnableA_EnableB_DisableA =>
        /\ processing_state = EnableAlone(trace[2]).processing_state
        /\ pattern = EnableAlone(trace[2]).pattern

\* A is the phase center translation, whose transform runs after the one of
\* B, the coordinate format.
C11_Witness ==
    /\ EnableA_EnableB_DisableA
    /\ trace[1].slot = "phase_center_translation"
    /\ trace[2].slot = "coordinate_format"
    /\ Len(pattern.ops) = 1

\* C12: a set_<option> call with the unset value leaves the slot unset, and
\* once every slot is unset again after enables and disables, the current
\* pattern is an unprocessed copy of the original.
C12_AllDisabledRestoresOriginal ==
    /\ (Tracking /\ trace # <<>>) =>
           LET last == trace[Len(trace)]
           IN processing_state[last.slot] = last.value
    /\ (/\ lastCall.op \in SetOptionCalls
        /\ ~lastCall.raised
        /\ original_pattern # NoPattern
        /\ SetSlots(processing_state) = <<>>)
           => /\ pattern = original_pattern
              /\ pattern.ops = <<>>

\* Peak normalization was enabled on the loaded pattern and then disabled.
C12_Witness ==
    /\ Tracking
    /\ original_pattern # NoPattern
    /\ Len(trace) = 2
    /\ trace[1].slot = "amplitude_normalization"
    /\ trace[1].value = "peak"
    /\ trace[2].slot = "amplitude_normalization"
    /\ trace[2].value = NoneStr
    /\ SetSlots(processing_state) = <<>>
    /\ pattern = original_pattern

\* C13: when a transform raises during a set_<option> call, the error
\* reaches the caller, the current pattern is the one from before the call,
\* and the call emits neither pattern_modified nor processing_applied.
C13_RaiseLeavesPatternAndEmitsNothing ==
    [][(lastCall'.op \in SetOptionCalls /\ run'.raised) =>
        /\ lastCall'.raised
        /\ pattern' = pattern
        /\ original_pattern' = original_pattern
        /\ \A i \in 1..Len(emitted') :
               emitted'[i].signal \notin {"pattern_modified",
                                          "processing_applied"}]_vars

\* A call raised in its third transform, after two transforms had changed
\* the working copy, and the current pattern is a processed one from an
\* earlier call.
C13_Witness ==
    /\ lastCall.op \in SetOptionCalls
    /\ lastCall.raised
    /\ run.raised
    /\ Len(run.calls) = 3
    /\ pattern # original_pattern
    /\ pattern # NoPattern

GroupIds == {active_instance_id} \cup comparison_instance_ids

CommonFrequencies ==
    {x \in 0..3 : \A id \in GroupIds :
        \E i \in 1..Len(Lookup(instances, id).pattern.frequencies) :
            Lookup(instances, id).pattern.frequencies[i] = x}

CommonPhi ==
    {x \in {0, 90, 180} : \A id \in GroupIds :
        \E i \in 1..Len(Lookup(instances, id).pattern.phi_angles) :
            Lookup(instances, id).pattern.phi_angles[i] = x}

IsAscendingListOf(list, set) ==
    /\ Len(list) = Cardinality(set)
    /\ \A i \in 1..Len(list) : list[i] \in set
    /\ \A i, j \in 1..Len(list) : i < j => list[i] < list[j]

Without(array, k) ==
    [i \in 1..(Len(array) - 1) |-> IF i < k THEN array[i] ELSE array[i + 1]]

FrequencyDropped(id, k) ==
    [Session EXCEPT !.instances[IndexOf(instances, id)].pattern.frequencies =
                        Without(@, k)]

C15_CompatibilityIsExactSharedSampling ==
    LET result == get_comparison_compatibility(Session)
    IN /\ comparison_instance_ids = {} =>
              result = [compatible |-> FALSE, common_frequencies |-> <<>>,
                        common_phi |-> <<>>, num_comparison |-> 0]
       /\ (/\ comparison_instance_ids # {}
           /\ GroupIds \subseteq Keys(instances)) =>
              /\ IsAscendingListOf(result.common_frequencies, CommonFrequencies)
              /\ IsAscendingListOf(result.common_phi, CommonPhi)
              /\ result.compatible <=>
                     \A id \in GroupIds :
                        /\ Len(Lookup(instances, id).pattern.frequencies)
                              = Cardinality(CommonFrequencies)
                        /\ Len(Lookup(instances, id).pattern.phi_angles)
                              = Cardinality(CommonPhi)
              /\ (result.compatible /\ Cardinality(GroupIds) >= 2) =>
                     \A id \in GroupIds :
                        \A k \in 1..Len(Lookup(instances, id).pattern.frequencies) :
                            LET dropped == get_comparison_compatibility(
                                               FrequencyDropped(id, k))
                            IN /\ ~dropped.compatible
                               /\ Len(dropped.common_frequencies)
                                     = Len(result.common_frequencies) - 1

\* C15 as stated: whenever the group of the active instance and the
\* comparison set is compatible, for any size of the group, the same group
\* with one frequency dropped from one of its patterns is not compatible.
C15_DropFlipsEveryCompatibleGroup ==
    (/\ comparison_instance_ids # {}
     /\ GroupIds \subseteq Keys(instances)
     /\ get_comparison_compatibility(Session).compatible) =>
        \A id \in GroupIds :
            \A k \in 1..Len(Lookup(instances, id).pattern.frequencies) :
                ~get_comparison_compatibility(FrequencyDropped(id, k)).compatible

\* Three files of the same sampling, two frequencies each, form a
\* compatible group: the active instance and two compared ones.
C15_Witness ==
    /\ Len(instances) = 3
    /\ active_instance_id \in Keys(instances)
    /\ Cardinality(GroupIds) = 3
    /\ get_comparison_compatibility(Session).compatible
    /\ get_comparison_compatibility(Session).common_frequencies = <<1, 2>>
    /\ get_comparison_compatibility(Session).num_comparison = 2

\* C16: add_to_comparison, remove_instance and rename_instance with an id
\* that is not registered leave the instances, the active id and the
\* comparison set as they were and emit nothing.
GuardedCalls == {"add_to_comparison", "remove_instance", "rename_instance"}

C16_UnknownIdIsNoOp ==
    [][(lastCall'.op \in GuardedCalls /\ ~lastCall'.was_registered) =>
        /\ ~lastCall'.raised
        /\ instances' = instances
        /\ active_instance_id' = active_instance_id
        /\ comparison_instance_ids' = comparison_instance_ids
        /\ emitted' = <<>>]_vars

\* add_to_comparison was called with the id of an instance that had been
\* removed, while a renamed instance is registered and another is compared.
C16_Witness ==
    /\ IsCall("add_to_comparison")
    /\ ~lastCall.was_registered
    /\ lastCall.arg # UnknownId
    /\ comparison_instance_ids # {}
    /\ \E i \in 1..Len(instances) : instances[i].display_name \in NewNames

\* C17: at most one SWE computation of a panel is in flight: a request that
\* arrives while the panel's worker is running starts no worker and leaves
\* the running one as it is, and no two workers are ever running at once.
Running(jobs) == {i \in 1..Len(jobs) : jobs[i].state = "running"}

C17_OneSWEComputationInFlight ==
    [][/\ Cardinality(Running(swe_jobs')) <= 1
       /\ (lastCall'.op = "on_calculate_swe" /\ isRunning(swe_jobs))
             => swe_jobs' = swe_jobs
       /\ lastCall'.op = "AnalysisPanel.on_calculate_swe"
             => swe_jobs' = swe_jobs]_vars

\* A request arrived and was ignored while the second worker of the session
\* was running on the current pattern.
C17_Witness ==
    /\ IsCall("on_calculate_swe")
    /\ lastCall.request[1].value
    /\ Len(swe_jobs) = 2
    /\ swe_jobs[2].state = "running"
    /\ swe_jobs[2].pattern = pattern

\* C18: a completed SWE result is put on the pattern it was computed from
\* or on none: when the current pattern was replaced while the computation
\* was in flight, the result is discarded.
C18_StaleSWEResultDiscarded ==
    \A i \in 1..Len(swe_jobs) :
        swe_jobs[i].state = "done" =>
            \/ swe_jobs[i].attached_to = NoPattern
            \/ swe_jobs[i].attached_to = swe_jobs[i].pattern

\* C19: a near-field evaluation runs in a background worker: the thread
\* that runs the session's operations is never inside the evaluator call.
C19_NearfieldOffTheEventLoopThread ==
    gui_thread = "event_loop"

\* C20: a near-field request that raises in the evaluator call or in a
\* reshape leaves the stored near-field data as it was and emits no
\* nearfield_calculated, as does one that raises before the evaluator call;
\* and the stored data is at all times nothing or a dictionary with all six
\* field components.
NearfieldCalls == {"on_calculate_nearfield", "nearfield_evaluated"}

C20_NearfieldFailsAsAWhole ==
    [][/\ (/\ lastCall'.op \in NearfieldCalls
           /\ lastCall'.request[1].value # NoFail)
             => /\ analysis_tab'.nearfield_data = analysis_tab.nearfield_data
                /\ emitted' = <<>>
       /\ \/ analysis_tab'.nearfield_data = NoNearfield
          \/ \A i \in 1..6 :
                 FieldComponents[i] \in analysis_tab'.nearfield_data.keys
       /\ \A i \in 1..Len(emitted') :
              emitted'[i].signal = "nearfield_calculated" =>
                 \A k \in 1..6 : FieldComponents[k] \in emitted'[i].arg.keys]_vars

\* After a spherical evaluation was stored, a planar one raised in the
\* fourth reshape: the spherical data is still the stored one.
C20_Witness ==
    /\ IsCall("nearfield_evaluated")
    /\ lastCall.request[1].slot = "planar"
    /\ lastCall.request[1].value = "H_r"
    /\ analysis_tab.nearfield_data.surface = "spherical"
    /\ emitted = <<>>

\* C21: for every theta_points T and phi_points P the six field arrays of a
\* spherical request have shape (T, P), and entry (i, j) is the evaluator's
\* flat output at row-major index (i, j) and the value for the point
\* (radius, theta_i, phi_j); for a planar request with x_points X and
\* y_points Y they have shape (X, Y), and entry (i, j) is the flat output at
\* row-major index (i, j) and the value for the point (x_i, y_j, z); the
\* Cartesian components added for a plane have entry (i, j) converted from
\* the spherical components at (i, j) with the angles of (x_i, y_j, z).
GridShape ==
    IF nf_params.surface_type = "spherical"
    THEN <<nf_params.theta_points, nf_params.phi_points>>
    ELSE <<nf_params.x_points, nf_params.y_points>>

SphericalOf(i, j) ==
    LET xyz == <<near_field_data.x[i], near_field_data.y[j],
                 near_field_data.z_distance>>
    IN [c \in {"r", "theta", "phi"} |-> [coordinate |-> c, of |-> xyz]]

PointOf(i, j) ==
    IF nf_params.surface_type = "spherical"
    THEN <<near_field_data.radius,
           [radians |-> near_field_data.theta[i]],
           [radians |-> near_field_data.phi[j]]>>
    ELSE <<SphericalOf(i, j)["r"], SphericalOf(i, j)["theta"],
           SphericalOf(i, j)["phi"]>>

HasShape(array, shp) ==
    /\ Len(array) = shp[1]
    /\ \A i \in 1..Len(array) : Len(array[i]) = shp[2]

CartesianOf(F, c, i, j) ==
    [component |-> c,
     of |-> <<near_field_data[F \o "_r"][i][j],
              near_field_data[F \o "_theta"][i][j],
              near_field_data[F \o "_phi"][i][j]>>,
     theta |-> SphericalOf(i, j)["theta"],
     phi |-> SphericalOf(i, j)["phi"]]

C21_GridShapeRoundTrip ==
    near_field_data # NoData =>
        /\ \A c \in {"E_r", "E_theta", "E_phi", "H_r", "H_theta", "H_phi"} :
              /\ HasShape(near_field_data[c], GridShape)
              /\ \A i \in 1..GridShape[1], j \in 1..GridShape[2] :
                    /\ near_field_data[c][i][j]
                          = evaluation.fields[c][(i - 1) * GridShape[2] + j]
                    /\ near_field_data[c][i][j]
                          = [component |-> c, at |-> PointOf(i, j)]
        /\ IF nf_params.surface_type = "spherical"
           THEN /\ Len(near_field_data.theta) = nf_params.theta_points
                /\ Len(near_field_data.phi) = nf_params.phi_points
           ELSE /\ Len(near_field_data.x) = nf_params.x_points
                /\ Len(near_field_data.y) = nf_params.y_points
        /\ "E_x" \in DOMAIN near_field_data =>
              \A F \in {"E", "H"}, c \in {"x", "y", "z"} :
                  /\ HasShape(near_field_data[F \o "_" \o c], GridShape)
                  /\ \A i \in 1..GridShape[1], j \in 1..GridShape[2] :
                        near_field_data[F \o "_" \o c][i][j]
                            = CartesianOf(F, c, i, j)

\* A plane of 2 by 3 points was evaluated and plotted: the shape is not
\* square and the Cartesian components are in the dictionary.
C21_Witness ==
    /\ near_field_data # NoData
    /\ nf_params.surface_type = "planar"
    /\ nf_params.x_points = 2
    /\ nf_params.y_points = 3
    /\ "H_z" \in DOMAIN near_field_data
    /\ Len(near_field_data.E_x) = 2
    /\ Len(near_field_data.E_x[1]) = 3

\* C22: for any two coefficient maps, also with modes present in one map
\* only, power_per_n has the degrees n of the modes of either map as keys and
\* power_per_n[n] is the sum of |Q1(n,m)|^2 + |Q2(n,m)|^2 over m;
\* power_per_m has the |m| of those modes as keys and power_per_m[k] is that
\* sum over the modes with |m| = k; both tables add up to the total power.
ModePower(mode) ==
    (IF mode \in DOMAIN swe_obj.Q1_coeffs
     THEN AbsSquared(swe_obj.Q1_coeffs[mode]) ELSE 0)
    + (IF mode \in DOMAIN swe_obj.Q2_coeffs
       THEN AbsSquared(swe_obj.Q2_coeffs[mode]) ELSE 0)

RECURSIVE PowerOf(_)
PowerOf(modes) ==
    IF modes = {}
    THEN 0
    ELSE LET mode == CHOOSE x \in modes : TRUE
         IN ModePower(mode) + PowerOf(modes \ {mode})

RECURSIVE TableSum(_, _)
TableSum(table, keys) ==
    IF keys = {}
    THEN 0
    ELSE LET k == CHOOSE x \in keys : TRUE
         IN table[k] + TableSum(table, keys \ {k})

PresentModes ==
    {mode \in Modes : mode \in DOMAIN swe_obj.Q1_coeffs
                      \/ mode \in DOMAIN swe_obj.Q2_coeffs}

C22_PowerTablesAreModeSums ==
    power_figure.shown =>
        LET per_n == power_figure.power_per_n
            per_m == power_figure.power_per_m
        IN /\ DOMAIN per_n = {mode[1] : mode \in PresentModes}
           /\ \A n \in DOMAIN per_n :
                  per_n[n] = PowerOf({mode \in Modes : mode[1] = n})
           /\ DOMAIN per_m = {Abs(mode[2]) : mode \in PresentModes}
           /\ \A k \in DOMAIN per_m :
                  per_m[k] = PowerOf({mode \in Modes :
                                         mode[2] = k \/ mode[2] = 0 - k})
           /\ TableSum(per_n, DOMAIN per_n) = PowerOf(Modes)
           /\ TableSum(per_m, DOMAIN per_m) = PowerOf(Modes)

\* Mode (1, 1) is in Q1_coeffs only and mode (1, -1) in Q2_coeffs only:
\* their powers 1 and 2 add up under degree 1 and under |m| = 1.
C22_Witness ==
    /\ power_figure.shown
    /\ DOMAIN swe_obj.Q1_coeffs = {<<1, 1>>}
    /\ DOMAIN swe_obj.Q2_coeffs = {<<1, 0 - 1>>}
    /\ power_figure.power_per_n[1] = 3
    /\ power_figure.power_per_m[1] = 3

\* C23: when the total power is zero, with empty maps or with coefficients
\* that are all zero, the summary is computed without a division by the
\* total: power_per_n and power_per_m are empty or all zero, the cumulative
\* series is all zeros and as long as the list of degrees, and no value
\* drawn is a quotient with divisor zero.
C23_ZeroPowerSummary ==
    (power_figure.shown /\ PowerOf(Modes) = 0) =>
        LET plot == power_figure.plot
        IN /\ \A n \in DOMAIN power_figure.power_per_n :
                  power_figure.power_per_n[n] = 0
           /\ \A k \in DOMAIN power_figure.power_per_m :
                  power_figure.power_per_m[k] = 0
           /\ Len(plot.cumulative) = Len(plot.n_values)
           /\ Len(plot.n_values) = Cardinality(DOMAIN power_figure.power_per_n)
           /\ \A i \in 1..Len(plot.cumulative) : plot.cumulative[i] = Zero
           /\ Len(plot.powers_m_db) = Len(plot.m_values)
           /\ \A i \in 1..Len(plot.powers_m_db) : plot.powers_m_db[i] = Floor

\* The summary was drawn for coefficients that are all zero, in degrees 1
\* and 2, and for empty maps.
C23_Witness ==
    /\ power_figure.shown
    /\ PowerOf(Modes) = 0
    /\ power_figure.plot.n_values = <<1, 2>>
    /\ power_figure.plot.cumulative = <<Zero, Zero>>

\* C24: at every notification emitted during add_instance, remove_instance,
\* set_active_instance or a processing edit, what a slot reads from the
\* model is committed and consistent: the active id is None or registered,
\* the current pattern is the pattern of the active instance (as loaded or
\* processed; no pattern when no instance is active), and an instance being
\* removed is no longer listed.
NotifyingCalls ==
    {"add_instance", "remove_instance", "set_active_instance",
     "set_amplitude_normalization"}

InKeys(keys, id) == \E k \in 1..Len(keys) : keys[k] = id

\* src names the file a pattern was read from, whatever was done to it since
IsPatternOf(current, stored_src) == current.src = stored_src

C24_ObserversNeverSeePartialState ==
    lastCall.op \in NotifyingCalls =>
        \A i \in 1..Len(emitted) :
            LET seen == emitted[i].seen
            IN /\ seen.active_instance_id = NoneId
                  \/ InKeys(seen.keys, seen.active_instance_id)
               /\ IsPatternOf(seen.pattern, seen.active_src)
               /\ (lastCall.op = "remove_instance" /\ lastCall.was_registered)
                      => ~InKeys(seen.keys, lastCall.arg)

\* C25: each set_<option>(v) call that returns emits exactly one
\* pattern_modified, carrying the pattern that is current at that moment,
\* and after it exactly one processing_applied naming the option; the pairs
\* of successive calls follow one another in call order, and the processing
\* state holds for each slot the last value written to it.
AppliedName(slot) == IF slot = "mars_max_extent" THEN "mars" ELSE slot

LastWritten(calls, slot) ==
    LET writes == {i \in 1..Len(calls) : calls[i].slot = slot}
    IN IF writes = {}
       THEN InitialProcessingState[slot]
       ELSE calls[CHOOSE i \in writes : \A j \in writes : j <= i].value

\* the notifications of the call that led to the primed state, and the
\* state it left
OnePairAndLastValues ==
    /\ Len(emitted') = 2
    /\ emitted'[1].signal = "pattern_modified"
    /\ emitted'[1].arg = pattern'
    /\ emitted'[1].seen.pattern = emitted'[1].arg
    /\ emitted'[2].signal = "processing_applied"
    /\ emitted'[2].arg = AppliedName(lastCall'.request[1].slot)
    /\ emitted'[2].seen.pattern = emitted'[1].arg
    /\ processing_state'[lastCall'.request[1].slot] = lastCall'.request[1].value
    /\ Tracking' =>
           \A k \in 1..Len(Slots) :
               processing_state'[Slots[k]] = LastWritten(trace', Slots[k])

\* C25 as stated, for every call that returns: one pattern_modified, then
\* one processing_applied, the slots at their last values
C25_EverySetOptionEmitsOnePair ==
    [][(lastCall'.op \in SetOptionCalls /\ ~lastCall'.raised)
          => OnePairAndLastValues]_vars

\* C25 as amended, for the calls that return on a loaded pattern: one
\* pattern_modified, then one processing_applied, the slots at their last
\* values
C25_SetOptionOnLoadedEmitsOnePair ==
    [][(/\ lastCall'.op \in SetOptionCalls
        /\ ~lastCall'.raised
        /\ original_pattern # NoPattern)
          => OnePairAndLastValues]_vars

\* The same slot was written twice on the loaded pattern, with different
\* values, and the second call emitted its pair.
C25_Witness ==
    /\ lastCall.op = "set_coordinate_format"
    /\ ~lastCall.raised
    /\ original_pattern # NoPattern
    /\ Tracking
    /\ Len(trace) = 2
    /\ trace[1].slot = "coordinate_format"
    /\ trace[2].slot = "coordinate_format"
    /\ trace[1].value # trace[2].value
    /\ processing_state.coordinate_format = trace[2].value
    /\ Len(emitted) = 2
    /\ emitted[1].arg = pattern

\* C26: every SWE worker that was started delivers exactly one outcome,
\* finished(result) or error(message), never both and never neither; as the
\* computation returns or raises, the panel that asked leaves its
\* 'Calculating...' state: the button is enabled again under its own text
\* and a new request is accepted.
OneOutcome(job) ==
    /\ Len(job.outcomes) = 1
    /\ job.outcomes[1] \in {"finished", "error"}
    /\ job.state = "finished" => job.outcomes = <<"finished">>
    /\ job.state = "failed" => job.outcomes = <<"error">>

AcceptsRequest ==
    /\ analysis_tab.calculate_swe_btn = ButtonReady
    /\ ~isRunning(swe_jobs)

C26_WorkerDeliversOneOutcome ==
    /\ [](\A i \in 1..Len(swe_jobs) :
              IF swe_jobs[i].state = "running"
              THEN swe_jobs[i].outcomes = <<>>
              ELSE OneOutcome(swe_jobs[i]))
    /\ \A i \in 1..MaxJobs :
           (Len(swe_jobs) >= i)
               ~> (Len(swe_jobs) >= i /\ swe_jobs[i].state = "done")
    /\ (analysis_tab.calculate_swe_btn.text = "Calculating...")
           ~> AcceptsRequest

\* A worker raised, its error was delivered, and the button is back.
C26_Witness ==
    /\ lastCall.op = "on_swe_error"
    /\ swe_jobs[Len(swe_jobs)].state = "done"
    /\ swe_jobs[Len(swe_jobs)].outcomes = <<"error">>
    /\ AcceptsRequest

\* C27: after any sequence of set_<option> calls, raising or not, and of
\* polarization changes, the original pattern of the session and the stored
\* pattern of every instance, the active one included, hold the field
\* values they were loaded with.
AsLoaded(p) == p = NewInstance(p.src).pattern

C27_OriginalNeverChanged ==
    /\ original_pattern # NoPattern => AsLoaded(original_pattern)
    /\ \A i \in 1..Len(instances) :
           /\ instances[i].pattern.src = instances[i].instance_id
           /\ AsLoaded(instances[i].pattern)
    /\ active_instance_id \in Keys(instances) =>
           original_pattern = Lookup(instances, active_instance_id).pattern

\* The current pattern went through a transform and a polarization change,
\* and a set_<option> call has raised.
C27_Witness ==
    /\ active_instance_id \in Keys(instances)
    /\ failures >= 1
    /\ pattern.ops # <<>>
    /\ pattern.pol # original_pattern.pol
    /\ AsLoaded(original_pattern)

\* C28: comparison_set_changed does not follow the comparison set exactly:
\* remove_instance of an instance of the comparison set takes it out of the
\* set and emits no comparison_set_changed, so a slot that keeps what the
\* signal carried last still holds the removed id; remove_from_comparison
\* emits the signal, with the set as it is, on every call, also when the id
\* was not in the set and the set did not change.
ComparisonSetChanges(signals) ==
    {i \in 1..Len(signals) : signals[i].signal = "comparison_set_changed"}

C28_ComparisonSignalNotExact ==
    [][/\ (/\ lastCall'.op = "remove_instance"
           /\ lastCall'.was_registered
           /\ lastCall'.was_compared)
          => /\ comparison_instance_ids'
                    = comparison_instance_ids \ {lastCall'.arg}
             /\ comparison_instance_ids' # comparison_instance_ids
             /\ ComparisonSetChanges(emitted') = {}
             /\ comparison_status' = comparison_status
             /\ lastCall'.arg \in comparison_status.comparison_ids
                    => comparison_status'.comparison_ids
                           # comparison_instance_ids'
       /\ lastCall'.op = "remove_from_comparison"
          => /\ Len(emitted') = 1
             /\ emitted'[1].signal = "comparison_set_changed"
             /\ emitted'[1].arg = comparison_instance_ids'
             /\ comparison_status'.comparison_ids = comparison_instance_ids'
             /\ ~lastCall'.was_compared
                    => comparison_instance_ids' = comparison_instance_ids]_vars

\* An instance of the comparison set was unloaded: the set is empty and the
\* status line still counts one pattern.
C28_Witness ==
    /\ lastCall.op = "remove_instance"
    /\ lastCall.was_compared
    /\ comparison_instance_ids = {}
    /\ comparison_status.num_patterns = 1
    /\ comparison_status.comparison_ids = {lastCall.arg}

\* C29: a polarization change is discarded by the next replay: after a
\* change to basis p and then a set_<option> call that returns, the current
\* pattern is derived from the original again and carries the original's
\* basis, which is not p where p is another basis than the original's.
PolarizationChanged ==
    /\ lastCall.op = "on_polarization_changed"
    /\ emitted # <<>>

DerivedFromOriginal ==
    /\ original_pattern' = original_pattern
    /\ pattern' = Apply(original_pattern', processing_state')
    /\ pattern'.pol = original_pattern'.pol
    /\ pattern.pol # original_pattern.pol => pattern'.pol # pattern.pol

StepIndex(method) == CHOOSE k \in 1..Len(Slots) : MethodOf(Slots[k]) = method

FailedStep(r) == r.calls[Len(r.calls)]

Ran(r, method) == \E k \in 1..Len(r.calls) : r.calls[k] = method

FailedEdit == lastCall'.op \in SetOptionCalls /\ run'.raised

SlotKeepsValuePatternStays ==
    /\ lastCall'.raised
    /\ processing_state' =
           [processing_state EXCEPT ![lastCall'.request[1].slot] =
                                        lastCall'.request[1].value]
    /\ pattern' = pattern
    /\ original_pattern' = original_pattern

OutOfStep == pattern' # Apply(original_pattern', processing_state')

NextEditOnOtherSlot ==
    /\ lastCall.op \in SetOptionCalls
    /\ run.raised
    /\ lastCall'.op \in SetOptionCalls
    /\ lastCall'.request[1].slot # lastCall.request[1].slot

====
